---- MODULE Spec2Model ----
(***************************************************************************)
(* Model of kmermaid (ggirelli/kman): the batch container (batch.py), the  *)
(* batchers (batcher.py) and the k-mer producer (seq.py).                  *)
(*                                                                         *)
(* Text is modelled as a sequence of one-character strings, so that        *)
(* formatting (as_fasta, SequenceCoords.__repr__) and parsing (the FASTA   *)
(* reader, SequenceCoords.from_str) are computed and not assumed to be     *)
(* inverse to each other.                                                  *)
(***************************************************************************)
EXTENDS Integers, Sequences, FiniteSets, TLC

VARIABLES
    batch,      \* SpecBatch: the Batch / BatchAppendable object under test
    added,      \* SpecBatch: records accepted by add since construction/reset
    wmode,      \* SpecBatch: how the file was written since construction/reset
    op,         \* the last call made: [name, ...arguments]
    err,        \* outcome of the last call: "ok" or the error raised
    out,        \* what the last call returned or wrote
    batcher,    \* SpecBatcher: the batcher object under test
    pipe,       \* SpecFasta: a FastaBatcher and the run of its do()
    vector      \* SpecJoin: the class attributes of AbundanceVector

vars == <<batch, added, wmode, op, err, out, batcher, pipe, vector>>

-----------------------------------------------------------------------------
(* Bounds of the model *)

\* largest batch capacity explored
MaxSize == 3

-----------------------------------------------------------------------------
(* Text helpers *)

NL == "\n"

DigitChars == <<"0", "1", "2", "3", "4", "5", "6", "7", "8", "9">>

IsDigit(c) == \E d \in 1..10 : DigitChars[d] = c

DigitVal(c) == (CHOOSE d \in 1..10 : DigitChars[d] = c) - 1

\* "%d" % n for n >= 0
RECURSIVE Dec(_)
Dec(n) == IF n < 10 THEN <<DigitChars[n + 1]>>
          ELSE Dec(n \div 10) \o <<DigitChars[(n % 10) + 1]>>

\* int(s) for a non-empty string of digits
RECURSIVE IntOf(_)
IntOf(s) == IF Len(s) = 1 THEN DigitVal(s[1])
            ELSE 10 * IntOf(SubSeq(s, 1, Len(s) - 1)) + DigitVal(s[Len(s)])

\* code points of the characters that occur in sequences (str comparison)
Ord(c) == CASE c = "A" -> 65 [] c = "C" -> 67 [] c = "G" -> 71
            [] c = "N" -> 78 [] c = "T" -> 84 [] c = "U" -> 85
            [] OTHER -> 0

\* Python's s < t on strings: lexicographic on code points, prefix first
RECURSIVE StrLess(_, _)
StrLess(s, t) ==
    IF t = <<>> THEN FALSE
    ELSE IF s = <<>> THEN TRUE
    ELSE IF Ord(s[1]) # Ord(t[1]) THEN Ord(s[1]) < Ord(t[1])
    ELSE StrLess(Tail(s), Tail(t))

Whitespace == {" ", "\n", "\r", "\t"}

\* str.rstrip()
RECURSIVE RStrip(_)
RStrip(s) == IF s # <<>> /\ s[Len(s)] \in Whitespace
             THEN RStrip(SubSeq(s, 1, Len(s) - 1)) ELSE s

\* s.replace(" ", "").replace("\r", "")
RECURSIVE DropBlanks(_)
DropBlanks(s) == IF s = <<>> THEN <<>>
                 ELSE IF s[1] \in {" ", "\r"} THEN DropBlanks(Tail(s))
                 ELSE <<s[1]>> \o DropBlanks(Tail(s))

\* the lines of a text, each with its terminator, as file iteration yields them
RECURSIVE SplitLines(_, _)
SplitLines(s, cur) ==
    IF s = <<>> THEN (IF cur = <<>> THEN <<>> ELSE <<cur>>)
    ELSE IF s[1] = NL THEN <<Append(cur, NL)>> \o SplitLines(Tail(s), <<>>)
    ELSE SplitLines(Tail(s), Append(cur, s[1]))

-----------------------------------------------------------------------------
(* SequenceCoords: the header codec *)

STRAND_PLUS == "+"
STRAND_MINUS == "-"

\* SequenceCoords.__repr__: "%s:%d-%d:%s"
CoordsRepr(ref, start, end, strand) ==
    ref \o <<":">> \o Dec(start) \o <<"-">> \o Dec(end) \o <<":">> \o <<strand>>

\* length of the run of digits of s that ends at position e (0 when none)
RECURSIVE DigitRun(_, _)
DigitRun(s, e) == IF e >= 1 /\ IsDigit(s[e]) THEN 1 + DigitRun(s, e - 1) ELSE 0

\* the groups of a matched string: s[1..col-1] : s[col+1..dash-1] - s[dash+1..n-2] : s[n]
CoordsAt(s, n, col, dash) ==
    [ok |-> TRUE, ref |-> SubSeq(s, 1, col - 1),
     start |-> IntOf(SubSeq(s, col + 1, dash - 1)),
     end |-> IntOf(SubSeq(s, dash + 1, n - 2)),
     strand |-> s[n]]

NoCoords == [ok |-> FALSE, ref |-> <<>>, start |-> 0, end |-> 0,
             strand |-> STRAND_PLUS]

\* the start group is the run of ls digits before the dash, after a ":" that
\* ends a non-empty reference name without line break
MatchStart(s, n, dash, ls) ==
    IF /\ ls >= 1
       /\ dash - 1 - ls >= 2
       /\ s[dash - 1 - ls] = ":"
       /\ \A j \in 1..(dash - 2 - ls) : s[j] # NL
    THEN CoordsAt(s, n, dash - 1 - ls, dash)
    ELSE NoCoords

\* the end group is the run of le digits before the last ":", after a "-"
MatchEnd(s, n, le) ==
    IF le >= 1 /\ n - 2 - le >= 1 /\ s[n - 2 - le] = "-"
    THEN MatchStart(s, n, n - 2 - le, DigitRun(s, n - 3 - le))
    ELSE NoCoords

\* the end of the string for "$": before a line break that ends the string
EndAnchor(s) == IF s # <<>> /\ s[Len(s)] = NL THEN Len(s) - 1 ELSE Len(s)

\* the match of ^(.+):([0-9]+)-([0-9]+):([\+-])$ in s[1..n]
from_str_upto(s, n) ==
    IF n >= 2 /\ s[n] \in {STRAND_PLUS, STRAND_MINUS} /\ s[n - 1] = ":"
    THEN MatchEnd(s, n, DigitRun(s, n - 2))
    ELSE NoCoords

\* SequenceCoords.from_str: ^(.+):([0-9]+)-([0-9]+):([\+-])$ ; the tail of the
\* pattern is anchored at the end of the string, which fixes the match.
from_str(s) == from_str_upto(s, EndAnchor(s))

-----------------------------------------------------------------------------
(* KMer records *)

\* a KMer object
KMer(chrom, start, end, seq, strand) ==
    [type |-> "KMer", ref |-> chrom, start |-> start, end |-> end,
     strand |-> strand, seq |-> seq]

\* the None entries of a batch's record list
None == [type |-> "NoneType", ref |-> <<>>, start |-> 0, end |-> 0,
         strand |-> STRAND_PLUS, seq |-> <<>>]

\* KMer.header
header(r) == CoordsRepr(r.ref, r.start, r.end, r.strand)

\* KMer.as_fasta: ">%s\n%s\n"
as_fasta(r) == <<">">> \o header(r) \o <<NL>> \o r.seq \o <<NL>>

\* KMer.__init__ from parsed coordinates: the length must match them
KMerFromCoords(c, seq) ==
    IF ~c.ok THEN [err |-> "MalformedHeader", rec |-> None]
    ELSE IF Len(seq) # c.end - c.start THEN [err |-> "AssertionError", rec |-> None]
    ELSE [err |-> "ok", rec |-> KMer(c.ref, c.start, c.end, seq, c.strand)]

\* KMer.from_fasta (= KMer.from_file) on a (header, sequence) record
from_fasta(rec) == KMerFromCoords(from_str(rec[1]), rec[2])

-----------------------------------------------------------------------------
(* Reading FASTA text back (the eager reader used by Batch.record_gen) *)

\* One pass over the lines: a line starting with ">" closes the record being
\* read and opens a new one; any other line is appended to the sequence; text
\* before the first header is skipped.
RECURSIVE FastaScan(_, _, _, _)
FastaScan(lines, started, title, seqlines) ==
    IF lines = <<>>
    THEN (IF started THEN << <<title, DropBlanks(seqlines)>> >> ELSE <<>>)
    ELSE LET line == Head(lines)
         IN  IF line[1] = ">"
             THEN (IF started THEN << <<title, DropBlanks(seqlines)>> >> ELSE <<>>)
                  \o FastaScan(Tail(lines), TRUE, RStrip(Tail(line)), <<>>)
             ELSE FastaScan(Tail(lines), started, title,
                            IF started THEN seqlines \o RStrip(line) ELSE seqlines)

\* the (header, sequence) records of a FASTA text
SimpleFastaParser(content) == FastaScan(SplitLines(content, <<>>), FALSE, <<>>, <<>>)

\* a generator's output so far (h) followed by the rest (t)
GenCons(h, t) == IF h.err # "ok" THEN [err |-> h.err, recs |-> <<>>]
                 ELSE [err |-> t.err, recs |-> <<h.rec>> \o t.recs]

\* getattr(type, fread)(record) for each parsed record; stops at the first
\* record that cannot be converted
RECURSIVE ReadRecords(_)
ReadRecords(recs) ==
    IF recs = <<>> THEN [err |-> "ok", recs |-> <<>>]
    ELSE GenCons(from_fasta(Head(recs)), ReadRecords(Tail(recs)))

\* Batch._record_gen_from_handle on the content of the temporary file
record_gen_from_handle(content) == ReadRecords(SimpleFastaParser(content))

-----------------------------------------------------------------------------
(* Sorting: sorted(records, key=seq) is stable *)

\* an insertion that puts r before the elements of equal key (unstable sort)
RECURSIVE InsertByKey_BeforeEqual(_, _)
InsertByKey_BeforeEqual(r, s) ==
    IF s = <<>> THEN <<r>>
    ELSE IF ~StrLess(Head(s).seq, r.seq) THEN <<r>> \o s
    ELSE <<Head(s)>> \o InsertByKey_BeforeEqual(r, Tail(s))

RECURSIVE InsertByKey(_, _)
InsertByKey(r, s) ==
    IF s = <<>> THEN <<r>>
    ELSE IF StrLess(r.seq, Head(s).seq) THEN <<r>> \o s
    ELSE <<Head(s)>> \o InsertByKey(r, Tail(s))

\* stable insertion sort on the key attribute: an element goes after every
\* element already placed whose key is not greater
RECURSIVE SortByKey(_)
SortByKey(s) ==
    IF s = <<>> THEN <<>>
    ELSE InsertByKey(s[Len(s)], SortByKey(SubSeq(s, 1, Len(s) - 1)))

-----------------------------------------------------------------------------
(* Batch and BatchAppendable objects *)

NoFile == [exists |-> FALSE, content |-> <<>>]

FileOf(content) == [exists |-> TRUE, content |-> content]

\* [None] * n
Nones(n) == [j \in 1..n |-> None]

\* Batch.__init__
Batch_init(size) ==
    [cls |-> "Batch", size |-> size, i |-> 0, remaining |-> size,
     records |-> Nones(size), written |-> FALSE, file |-> NoFile]

\* BatchAppendable.__init__
BatchAppendable_init(size) ==
    [Batch_init(size) EXCEPT !.cls = "BatchAppendable", !.written = TRUE]

\* Batch.is_full
is_full(b) == b.remaining = 0

\* Batch.check_record
check_record(b, r) == r.type = "KMer"

\* Batch._record_gen_from_file: opening a missing file fails
record_gen_from_file(b) ==
    IF ~b.file.exists THEN [err |-> "FileNotFoundError", recs |-> <<>>]
    ELSE record_gen_from_handle(b.file.content)

\* the entries of a record list that are not None
RECURSIVE NotNone(_)
NotNone(s) == IF s = <<>> THEN <<>>
              ELSE IF Head(s) = None THEN NotNone(Tail(s))
              ELSE <<Head(s)>> \o NotNone(Tail(s))

\* Batch.record_gen
Batch_record_gen(b) ==
    IF b.written THEN record_gen_from_file(b)
    ELSE [err |-> "ok", recs |-> NotNone(b.records)]

\* BatchAppendable.record_gen
BatchAppendable_record_gen(b) ==
    IF b.i # 0 THEN record_gen_from_file(b)
    ELSE [err |-> "ok", recs |-> <<>>]

record_gen(b) == IF b.cls = "Batch" THEN Batch_record_gen(b)
                 ELSE BatchAppendable_record_gen(b)

\* Batch.sorted
SortGen(g) == [err |-> g.err, recs |-> SortByKey(g.recs)]

sorted(b) == SortGen(record_gen(b))

\* "".join of the serialized records, each newline-terminated
RECURSIVE JoinFasta(_)
JoinFasta(recs) == IF recs = <<>> THEN <<>>
                   ELSE as_fasta(Head(recs)) \o JoinFasta(Tail(recs))

\* Batch.to_write
to_write(b, doSort) == IF doSort THEN sorted(b) ELSE record_gen(b)

-----------------------------------------------------------------------------
(* Batch operations.  Each returns [b |-> the object after the call,          *)
(* err |-> "ok" or the error raised]; what was assigned before an error      *)
(* stays assigned.                                                           *)

\* Batch.add without "self._remaining -= 1"
Batch_add_KeepsRemaining(b, r) ==
    IF is_full(b) THEN [b |-> b, err |-> "BatchFull"]
    ELSE IF b.written THEN [b |-> b, err |-> "WrittenBatchImmutable"]
    ELSE IF ~check_record(b, r) THEN [b |-> b, err |-> "TypeMismatch"]
    ELSE [b |-> [b EXCEPT !.records[b.i + 1] = r, !.i = b.i + 1], err |-> "ok"]

\* Batch.add with the record stored before its type is checked
Batch_add_StoresFirst(b, r) ==
    IF is_full(b) THEN [b |-> b, err |-> "BatchFull"]
    ELSE IF b.written THEN [b |-> b, err |-> "WrittenBatchImmutable"]
    ELSE IF ~check_record(b, r)
         THEN [b |-> [b EXCEPT !.records[b.i + 1] = r], err |-> "TypeMismatch"]
    ELSE [b |-> [b EXCEPT !.records[b.i + 1] = r, !.i = b.i + 1,
                          !.remaining = b.remaining - 1],
          err |-> "ok"]

\* Batch.add
Batch_add(b, r) ==
    IF is_full(b) THEN [b |-> b, err |-> "BatchFull"]
    ELSE IF b.written THEN [b |-> b, err |-> "WrittenBatchImmutable"]
    ELSE IF ~check_record(b, r) THEN [b |-> b, err |-> "TypeMismatch"]
    ELSE IF b.i + 1 > Len(b.records) THEN [b |-> b, err |-> "IndexError"]
    ELSE [b |-> [b EXCEPT !.records[b.i + 1] = r, !.i = b.i + 1,
                          !.remaining = b.remaining - 1],
          err |-> "ok"]

\* BatchAppendable.add opening the file with "w+", which truncates it
BatchAppendable_add_Truncates(b, r) ==
    IF is_full(b) THEN [b |-> b, err |-> "BatchFull"]
    ELSE IF ~check_record(b, r) THEN [b |-> b, err |-> "TypeMismatch"]
    ELSE [b |-> [b EXCEPT !.file = FileOf(as_fasta(r)),
                          !.i = b.i + 1, !.remaining = b.remaining - 1],
          err |-> "ok"]

\* BatchAppendable.add: open(tmp, "a+") creates the file when it is missing
BatchAppendable_add(b, r) ==
    IF is_full(b) THEN [b |-> b, err |-> "BatchFull"]
    ELSE IF ~check_record(b, r) THEN [b |-> b, err |-> "TypeMismatch"]
    ELSE [b |-> [b EXCEPT !.file = FileOf(b.file.content \o as_fasta(r)),
                          !.i = b.i + 1, !.remaining = b.remaining - 1],
          err |-> "ok"]

add(b, r) == IF b.cls = "Batch" THEN Batch_add(b, r) ELSE BatchAppendable_add(b, r)

\* Batch.add_all / BatchAppendable.add_all: add every record, stop at the
\* first failure
RECURSIVE add_all(_, _)
add_all(b, rs) ==
    IF rs = <<>> THEN [b |-> b, err |-> "ok"]
    ELSE IF add(b, Head(rs)).err # "ok" THEN add(b, Head(rs))
    ELSE add_all(add(b, Head(rs)).b, Tail(rs))

\* Batch.write that keeps the records in memory after writing
Batch_write_out_KeepsRecords(b, w) ==
    IF w.err # "ok" THEN [b |-> b, err |-> w.err]
    ELSE [b |-> [b EXCEPT !.file = FileOf(JoinFasta(w.recs)), !.written = TRUE],
          err |-> "ok"]

\* the body of Batch.write once the output w was computed
Batch_write_out(b, w) ==
    IF w.err # "ok" THEN [b |-> b, err |-> w.err]
    ELSE [b |-> [b EXCEPT !.file = FileOf(JoinFasta(w.recs)),
                          !.records = <<None>>, !.written = TRUE],
          err |-> "ok"]

\* Batch.write
Batch_write(b, doSort, force) ==
    IF ~b.written \/ force THEN Batch_write_out(b, to_write(b, doSort))
    ELSE [b |-> b, err |-> "ok"]

\* open(self.tmp, "w+"): the file is created or truncated
Truncated(b) == [b EXCEPT !.file = FileOf(<<>>)]

\* the body of BatchAppendable.write once the output w was computed
BatchAppendable_write_out(b, w) ==
    IF w.err # "ok" THEN [b |-> Truncated(b), err |-> w.err]
    ELSE [b |-> [b EXCEPT !.file = FileOf(JoinFasta(w.recs))], err |-> "ok"]

\* BatchAppendable.write: the file is opened with "w+" before to_write reads
\* the records back from it, so to_write reads the truncated file
BatchAppendable_write(b, doSort, force) ==
    IF (~b.written \/ force) /\ doSort
    THEN BatchAppendable_write_out(b, to_write(Truncated(b), doSort))
    ELSE [b |-> b, err |-> "ok"]

write(b, doSort, force) ==
    IF b.cls = "Batch" THEN Batch_write(b, doSort, force)
    ELSE BatchAppendable_write(b, doSort, force)

\* Batch.reset
Batch_reset(b) ==
    IF b.written /\ ~b.file.exists THEN [b |-> b, err |-> "FileNotFoundError"]
    ELSE [b |-> [b EXCEPT !.file = IF b.written THEN NoFile ELSE b.file,
                          !.written = FALSE, !.i = 0, !.remaining = b.size,
                          !.records = Nones(b.size)],
          err |-> "ok"]

\* BatchAppendable.reset: os.remove comes first and fails on a missing file
BatchAppendable_reset(b) ==
    IF ~b.file.exists THEN [b |-> b, err |-> "FileNotFoundError"]
    ELSE [b |-> [b EXCEPT !.file = NoFile, !.i = 0, !.remaining = b.size],
          err |-> "ok"]

reset(b) == IF b.cls = "Batch" THEN Batch_reset(b) ELSE BatchAppendable_reset(b)

\* records[:i] = lst on a list
SliceAssign(records, i, lst) ==
    lst \o SubSeq(records, (IF i < Len(records) THEN i ELSE Len(records)) + 1,
                  Len(records))

\* Batch.unwrite that leaves the batch marked as written
Batch_unwrite_in_StaysWritten(b, g) ==
    IF g.err # "ok"
    THEN [b |-> [b EXCEPT !.records = Nones(b.size)], err |-> g.err]
    ELSE [b |-> [b EXCEPT !.records = SliceAssign(Nones(b.size), b.i, g.recs),
                          !.file = NoFile],
          err |-> "ok"]

\* the body of Batch.unwrite once the file was read into g
Batch_unwrite_in(b, g) ==
    IF g.err # "ok"
    THEN [b |-> [b EXCEPT !.records = Nones(b.size)], err |-> g.err]
    ELSE [b |-> [b EXCEPT !.records = SliceAssign(Nones(b.size), b.i, g.recs),
                          !.written = FALSE, !.file = NoFile],
          err |-> "ok"]

\* Batch.unwrite that does not look at whether the batch is full
Batch_unwrite_EvenFull(b) ==
    IF b.written THEN Batch_unwrite_in(b, record_gen(b))
    ELSE [b |-> b, err |-> "ok"]

\* Batch.unwrite
Batch_unwrite(b) ==
    IF ~is_full(b) /\ b.written THEN Batch_unwrite_in(b, record_gen(b))
    ELSE [b |-> b, err |-> "ok"]

\* BatchAppendable.unwrite
BatchAppendable_unwrite(b) == [b |-> b, err |-> "ok"]

unwrite(b) == IF b.cls = "Batch" THEN Batch_unwrite(b) ELSE BatchAppendable_unwrite(b)

\* max(2, n)
Max2(n) == IF n < 2 THEN 2 ELSE n

\* Batch.from_file once the records of the file were counted: the batch is
\* bound to the file, then re-sorted in place when asked
from_file_sized(f, size, reSort) ==
    IF reSort
    THEN write([cls |-> "Batch", size |-> size, i |-> size, remaining |-> 0,
                records |-> Nones(size), written |-> TRUE, file |-> f],
               TRUE, TRUE)
    ELSE [b |-> [cls |-> "Batch", size |-> size, i |-> size, remaining |-> 0,
                 records |-> Nones(size), written |-> TRUE, file |-> f],
          err |-> "ok"]

\* Batch.from_file(path, KMer, isFasta=True, smart=False, reSort)
from_file(f, reSort) ==
    IF ~f.exists THEN [b |-> Batch_init(1), err |-> "FileNotFoundError"]
    ELSE from_file_sized(f, Max2(Len(SimpleFastaParser(f.content))), reSort)

-----------------------------------------------------------------------------
(* Records offered to the batch under test *)

K_CA == KMer(<<"r">>, 0, 2, <<"C", "A">>, STRAND_PLUS)
K_AC == KMer(<<"r">>, 1, 3, <<"A", "C">>, STRAND_PLUS)
\* same sequence as K_AC under another header: a two-digit start, a reference
\* name that itself holds ":" and digits, the minus strand
K_AC2 == KMer(<<"c", ":", "2">>, 10, 12, <<"A", "C">>, STRAND_MINUS)

KMerPool == {K_CA, K_AC, K_AC2}

\* a record whose type is not the batch's record type
Foreign == [type |-> "str", ref |-> <<>>, start |-> 0, end |-> 0,
            strand |-> STRAND_PLUS, seq |-> <<"C", "A">>]

Inputs == KMerPool \cup {Foreign}

Call(name, recs, doSort, force) ==
    [name |-> name, recs |-> recs, doSort |-> doSort, force |-> force]

-----------------------------------------------------------------------------
(* SpecBatch: one batch object driven by any sequence of calls *)

InitBatch ==
    /\ batch \in {Batch_init(n) : n \in 1..MaxSize}
                 \cup {BatchAppendable_init(n) : n \in 1..MaxSize}
    /\ added = <<>>
    /\ wmode = "none"
    /\ op = Call("init", <<>>, FALSE, FALSE)
    /\ err = "ok"
    /\ out = <<>>
    /\ vector = <<>>
    /\ batcher = <<>>
    /\ pipe = <<>>

\* a call that returned a (the object after it and the outcome)
Returned(a, call, nowAdded, nowMode) ==
    /\ batch' = a.b
    /\ err' = a.err
    /\ op' = call
    /\ added' = nowAdded
    /\ wmode' = nowMode
    /\ out' = <<>>
    /\ UNCHANGED <<batcher, pipe, vector>>

AddDone(a, r) ==
    Returned(a, Call("add", <<r>>, FALSE, FALSE),
             IF a.err = "ok" THEN Append(added, r) ELSE added, wmode)

Add(r) == AddDone(add(batch, r), r)

AddAllDone(a, rs) ==
    Returned(a, Call("add_all", rs, FALSE, FALSE),
             added \o SubSeq(rs, 1, a.b.i - batch.i), wmode)

AddAll(rs) == AddAllDone(add_all(batch, rs), rs)

\* whether write(doSort, force) puts the records into the file at all
Rewrites(b, doSort, force) ==
    (~b.written \/ force) /\ (b.cls = "Batch" \/ doSort)

\* "plain": every rewrite so far kept the order of the records; "sorted": the
\* last rewrite sorted them; "mixed": a rewrite in the given order followed a
\* sorting one
ModeAfter(doSort) ==
    IF doSort THEN "sorted"
    ELSE IF wmode \in {"none", "plain"} THEN "plain" ELSE "mixed"

WriteDone(w, doSort, force) ==
    Returned(w, Call("write", <<>>, doSort, force), added,
             IF w.err = "ok" /\ Rewrites(batch, doSort, force)
             THEN ModeAfter(doSort) ELSE wmode)

Write(doSort, force) == WriteDone(write(batch, doSort, force), doSort, force)

Unwrite == Returned(unwrite(batch), Call("unwrite", <<>>, FALSE, FALSE), added, wmode)

\* Batch.from_file on the file of the batch under test, which the new batch
\* replaces
FromFileDone(x, reSort) ==
    Returned(x, Call("from_file", <<>>, reSort, FALSE), added,
             IF reSort THEN "sorted" ELSE wmode)

FromFile(reSort) ==
    /\ batch.cls = "Batch"
    /\ batch.file.exists
    /\ FromFileDone(from_file(batch.file, reSort), reSort)

ResetDone(x) ==
    Returned(x, Call("reset", <<>>, FALSE, FALSE),
             IF x.err = "ok" THEN <<>> ELSE added,
             IF x.err = "ok" THEN "none" ELSE wmode)

Reset == ResetDone(reset(batch))

RecordGenDone(g) ==
    /\ UNCHANGED <<batch, added, wmode, batcher, pipe, vector>>
    /\ err' = g.err
    /\ op' = Call("record_gen", <<>>, FALSE, FALSE)
    /\ out' = g.recs

RecordGen == RecordGenDone(record_gen(batch))

NextBatch ==
    \/ \E r \in Inputs : Add(r)
    \/ \E r1 \in Inputs, r2 \in Inputs : AddAll(<<r1, r2>>)
    \/ \E doSort \in BOOLEAN, force \in BOOLEAN : Write(doSort, force)
    \/ Unwrite
    \/ Reset
    \/ RecordGen
    \/ \E reSort \in BOOLEAN : FromFile(reSort)

SpecBatch == InitBatch /\ [][NextBatch]_vars

-----------------------------------------------------------------------------
(* Claims on one batch (SpecBatch) *)

IsBatch == batch.cls = "Batch"
IsAppendable == batch.cls = "BatchAppendable"

\* C2: after any sequence of add, add_all, write, unwrite and reset calls,
\* successful or failing, 0 <= current_size <= capacity and
\* remaining = capacity - current_size.
C2_SizeInvariant ==
    /\ 0 <= batch.i
    /\ batch.i <= batch.size
    /\ batch.remaining = batch.size - batch.i

\* C2 witness: a full batch on which the last call, an add_all, failed
C2_Witness ==
    /\ op.name = "add_all"
    /\ err = "BatchFull"
    /\ batch.i = batch.size
    /\ batch.size > 1

\* C3: write-then-read round trip of a Batch: after writes that kept the given
\* order, record_gen yields the added records in add order; after a sorting
\* write, it yields them stable-sorted by seq.
C3_RoundTrip ==
    (IsBatch /\ batch.written /\ wmode \in {"plain", "sorted"}) =>
        /\ record_gen(batch).err = "ok"
        /\ record_gen(batch).recs =
              (IF wmode = "sorted" THEN SortByKey(added) ELSE added)

\* C3 witness: a sorted write of records added out of order, two of them with
\* the same sequence
C3_Witness ==
    /\ IsBatch /\ batch.written /\ wmode = "sorted"
    /\ op.name = "write"
    /\ added = <<K_CA, K_AC2, K_AC>>

\* C4 (as claimed): after a successful write of a Batch, the batch is written, its
\* in-memory collection is released, current_size is unchanged, and the number
\* of records in its temporary file equals current_size.
C4_AfterWrite ==
    [][(IsBatch /\ op'.name = "write" /\ err' = "ok") =>
          /\ batch'.written
          /\ batch'.records = <<None>>
          /\ batch'.i = batch.i
          /\ batch'.file.exists
          /\ Len(SimpleFastaParser(batch'.file.content)) = batch'.i]_vars

\* C4 witness: a successful write of a Batch that holds two records or more
C4_Witness ==
    /\ IsBatch /\ op.name = "write" /\ err = "ok"
    /\ batch.written /\ batch.i >= 2

\* the three conditions under which Batch.add refuses a record
AddRefused(b, r) == is_full(b) \/ b.written \/ r.type # "KMer"

\* C5: Batch.add fails when the batch is full (BatchFull), when it is written
\* (WrittenBatchImmutable) or when the record's type differs from the batch
\* record type (TypeMismatch), and only then; in every failing case
\* current_size, remaining, the written flag and the stored records are
\* unchanged.
C5_AddFailures ==
    [][(IsBatch /\ op'.name = "add") =>
          /\ (err' # "ok") <=> AddRefused(batch, op'.recs[1])
          /\ err' \in {"ok", "BatchFull", "WrittenBatchImmutable", "TypeMismatch"}
          /\ (err' = "BatchFull") => is_full(batch)
          /\ (err' = "WrittenBatchImmutable") => batch.written
          /\ (err' = "TypeMismatch") => op'.recs[1].type # "KMer"
          /\ (err' # "ok") => batch' = batch]_vars

\* C5 witness: a record of a foreign type was refused by a batch that holds
\* records and is neither full nor written
C5_Witness ==
    /\ IsBatch /\ op.name = "add" /\ err = "TypeMismatch"
    /\ batch.i >= 1 /\ ~is_full(batch) /\ ~batch.written

\* C6: Batch.unwrite on a batch that is written and not full restores the
\* records to memory in file order, deletes the temporary file, sets written
\* to false and leaves current_size unchanged, so that a following add
\* succeeds; on a batch that is full or not written it changes nothing.
C6_Unwrite ==
    [][(IsBatch /\ op'.name = "unwrite") =>
          IF batch.written /\ ~is_full(batch)
          THEN /\ err' = "ok"
               /\ ~batch'.written
               /\ ~batch'.file.exists
               /\ batch'.i = batch.i
               /\ batch'.remaining = batch.remaining
               /\ NotNone(batch'.records) = record_gen_from_file(batch).recs
               /\ Len(NotNone(batch'.records)) = batch.i
               /\ \A r \in KMerPool : add(batch', r).err = "ok"
          ELSE batch' = batch /\ err' = "ok"]_vars

\* C6 witness: an unwrite brought two records back from a sorted file
C6_Witness ==
    /\ IsBatch /\ op.name = "unwrite" /\ ~batch.written /\ ~batch.file.exists
    /\ batch.records = <<K_AC, K_CA, None>>
    /\ added = <<K_CA, K_AC>>

\* C7 (as claimed): reset succeeds from every reachable state of a Batch and
\* of a BatchAppendable and leaves the batch empty: current_size = 0,
\* remaining = capacity, no temporary file (and written = false for a Batch).
C7_ResetAlwaysSucceeds ==
    (op.name = "reset") =>
        /\ err = "ok"
        /\ batch.i = 0
        /\ batch.remaining = batch.size
        /\ ~batch.file.exists
        /\ IsBatch => ~batch.written

\* the text of the temporary file of b, empty when the file is missing
TextOf(b) == IF b.file.exists THEN b.file.content ELSE <<>>

\* C9: for a BatchAppendable every successful add appends exactly one
\* serialized record to the temporary file and adds one to current_size; as
\* long as the file was not rewritten by write, after n adds the file holds the
\* n records in add order, current_size = n and record_gen yields them in that
\* order; unwrite changes nothing.
C9_AppendOnAdd ==
    [][IsAppendable =>
          /\ (op'.name = "add" /\ err' = "ok") =>
                /\ batch'.file.exists
                /\ batch'.file.content = TextOf(batch) \o as_fasta(op'.recs[1])
                /\ batch'.i = batch.i + 1
          /\ (wmode' = "none" /\ batch'.i > 0) =>
                /\ batch'.i = Len(added')
                /\ Len(SimpleFastaParser(batch'.file.content)) = batch'.i
                /\ record_gen(batch').err = "ok"
                /\ record_gen(batch').recs = added'
          /\ (op'.name = "unwrite") => (batch' = batch /\ err' = "ok")]_vars

\* C9 witness: three adds in an order that is not the sorted one, then unwrite
C9_Witness ==
    /\ IsAppendable /\ op.name = "unwrite" /\ wmode = "none"
    /\ added = <<K_CA, K_AC2, K_AC>>
    /\ batch.i = 3

\* C10 (as claimed): for a BatchAppendable holding records in any order,
\* write(do_sort=true) rewrites the temporary file so that it contains the
\* same records sorted by the sort key.
C10_SortedWrite ==
    (IsAppendable /\ op.name = "write" /\ op.doSort /\ err = "ok" /\ batch.i > 0) =>
        record_gen(batch).recs = SortByKey(added)

-----------------------------------------------------------------------------
(* Batchers (batcher.py) *)

LastOf(s) == s[Len(s)]
SetLast(s, x) == [s EXCEPT ![Len(s)] = x]

\* mp.cpu_count() of the machine
CpuCount == 2

\* BatcherThreading.threads setter
ClampThreads(t) == IF t < 1 THEN 1 ELSE IF t > CpuCount THEN CpuCount ELSE t

\* BatcherBase.__init__ (size >= 1), then BatcherThreading.__init__
BatcherThreading_init(size, threads) ==
    [size |-> size, threads |-> ClampThreads(threads), rc |-> FALSE,
     collection |-> <<Batch_init(size)>>]

\* BatcherBase.__init__
BatcherBase_init(size) == BatcherThreading_init(size, 1)

\* BatcherBase.new_batch without the write of the full batch
new_batch_rolled_NoWrite(B, w) ==
    [b |-> [B EXCEPT !.collection = Append(@, Batch_init(B.size))], err |-> "ok"]

\* BatcherBase.new_batch once the full last batch was written (w)
new_batch_rolled(B, w) ==
    IF w.err # "ok" THEN [b |-> B, err |-> w.err]
    ELSE [b |-> [B EXCEPT !.collection = Append(SetLast(@, w.b), Batch_init(B.size))],
          err |-> "ok"]

\* BatcherBase.new_batch that rolls over whether the last batch is full or not
new_batch_Always(B) ==
    IF B.collection = <<>> THEN [b |-> B, err |-> "IndexError"]
    ELSE new_batch_rolled(B, write(LastOf(B.collection), FALSE, FALSE))

\* BatcherBase.new_batch
new_batch(B) ==
    IF B.collection = <<>> THEN [b |-> B, err |-> "IndexError"]
    ELSE IF is_full(LastOf(B.collection))
         THEN new_batch_rolled(B, write(LastOf(B.collection), FALSE, FALSE))
    ELSE [b |-> B, err |-> "ok"]

\* BatcherBase.add_record: self.collection[-1].add(record), its outcome a
add_record_put(B, a) ==
    [b |-> [B EXCEPT !.collection = SetLast(@, a.b)], err |-> a.err]

\* BatcherBase.add_record after new_batch returned n
add_record_in(n, r) ==
    IF n.err # "ok" THEN n
    ELSE add_record_put(n.b, add(LastOf(n.b.collection), r))

\* BatcherBase.add_record
add_record(B, r) == add_record_in(new_batch(B), r)

-----------------------------------------------------------------------------
(* SpecBatcher: one batcher driven by add_record and new_batch calls *)

\* largest number of records stored in the batcher under test
MaxRecords == 5

\* number of records held by the batches of a collection
RECURSIVE TotalSize(_)
TotalSize(c) == IF c = <<>> THEN 0 ELSE Head(c).i + TotalSize(Tail(c))

InitBatcher ==
    /\ batcher \in {BatcherBase_init(n) : n \in 1..MaxSize}
    /\ added = <<>>
    /\ op = Call("init", <<>>, FALSE, FALSE)
    /\ err = "ok"
    /\ batch = Batch_init(1)
    /\ wmode = "none"
    /\ out = <<>>
    /\ vector = <<>>
    /\ pipe = <<>>

BatcherReturned(a, call, nowAdded) ==
    /\ batcher' = a.b
    /\ err' = a.err
    /\ op' = call
    /\ added' = nowAdded
    /\ UNCHANGED <<batch, wmode, out, pipe, vector>>

AddRecordDone(a, r) ==
    BatcherReturned(a, Call("add_record", <<r>>, FALSE, FALSE),
                    IF a.err = "ok" THEN Append(added, r) ELSE added)

AddRecord(r) ==
    /\ TotalSize(batcher.collection) < MaxRecords
    /\ AddRecordDone(add_record(batcher, r), r)

NewBatch == BatcherReturned(new_batch(batcher), Call("new_batch", <<>>, FALSE, FALSE), added)

NextBatcher ==
    \/ \E r \in Inputs : AddRecord(r)
    \/ NewBatch

SpecBatcher == InitBatcher /\ [][NextBatcher]_vars

\* the batches of the collection that are not full
NonFull(c) == {i \in DOMAIN c : ~is_full(c[i])}

\* the last batch of the collection takes one more record
AcceptsAdd(c) == \A r \in KMerPool : add(LastOf(c), r).err = "ok"

\* C8 (as claimed): after any sequence of add_record calls on a batcher,
\* exactly one batch of its collection, the last one, is non-full and accepts
\* writes, and every earlier batch is written.
C8_ExactlyOneActive ==
    /\ NonFull(batcher.collection) = {Len(batcher.collection)}
    /\ AcceptsAdd(batcher.collection)
    /\ \A i \in 1..(Len(batcher.collection) - 1) : batcher.collection[i].written

\* C8 (amended): after any sequence of add_record calls on a batcher, every
\* batch before the last is full and written, and the last batch is not
\* written; the last batch is the only one that can be non-full, and it accepts
\* a record exactly when it is not full (a full last batch is rolled over by
\* the next add_record only).
C8_LazyRollover ==
    /\ Len(batcher.collection) >= 1
    /\ \A i \in 1..(Len(batcher.collection) - 1) :
          is_full(batcher.collection[i]) /\ batcher.collection[i].written
    /\ ~LastOf(batcher.collection).written
    /\ NonFull(batcher.collection) \subseteq {Len(batcher.collection)}
    /\ AcceptsAdd(batcher.collection) <=> ~is_full(LastOf(batcher.collection))

\* C8 witness: an add_record rolled over a full batch and then filled the new
\* last batch, which stays full and unwritten
C8_Witness ==
    /\ op.name = "add_record" /\ err = "ok"
    /\ Len(batcher.collection) = 2
    /\ batcher.size = 2
    /\ batcher.collection[1].written
    /\ is_full(batcher.collection[2])
    /\ ~batcher.collection[2].written

-----------------------------------------------------------------------------
(* K-mer producer (seq.py) *)

\* str.upper on the characters that occur in the inputs
Upper(c) == CASE c = "a" -> "A" [] c = "c" -> "C" [] c = "g" -> "G"
              [] c = "t" -> "T" [] OTHER -> c

UpperSeq(s) == [i \in DOMAIN s |-> Upper(s[i])]

\* om.AB_NA[DNA][0], the DNA alphabet
AB_DNA == {"A", "C", "G", "T", "R", "Y", "K", "M", "S", "W", "B", "D", "H", "V", "N"}

\* Sequence.check_ab refusing every window
check_ab_RefusesAll(w) == FALSE

\* Sequence.check_ab
check_ab(w) == \A i \in DOMAIN w : w[i] \in AB_DNA

\* the complement of a DNA base, om.AB_NA[DNA][1]
Complement(c) == CASE c = "A" -> "T" [] c = "T" -> "A" [] c = "C" -> "G"
                   [] c = "G" -> "C" [] OTHER -> c

\* Sequence.mkrc: the reverse complement
mkrc(w) == [i \in DOMAIN w |-> Complement(w[Len(w) + 1 - i])]

\* SequenceCoords.rev
rev(strand) == IF strand = STRAND_PLUS THEN STRAND_MINUS ELSE STRAND_PLUS

\* Sequence.__kmer_yielding without the shift by the offset
kmer_yielding_NoOffset(i, seq, prefix, k, offset, strand) ==
    <<KMer(prefix, i, i + k, SubSeq(seq, i + 1, i + k), strand)>>

\* Sequence.__kmer_yielding
kmer_yielding(i, seq, prefix, k, offset, strand) ==
    <<KMer(prefix, i + offset, i + offset + k, SubSeq(seq, i + 1, i + k), strand)>>

\* Sequence.__kmer_yielding_with_rc
kmer_yielding_with_rc(i, seq, prefix, k, offset, strand) ==
    <<KMer(prefix, i + offset, i + offset + k, SubSeq(seq, i + 1, i + k), strand),
      KMer(prefix, i + offset, i + offset + k, mkrc(SubSeq(seq, i + 1, i + k)),
           rev(strand))>>

\* the loop of Sequence.yield_kmers from position i on
RECURSIVE yield_kmers_from(_, _, _, _, _, _, _)
yield_kmers_from(i, seq, prefix, k, offset, strand, rc) ==
    IF i >= Len(seq) - k + 1 THEN <<>>
    ELSE (IF ~check_ab(SubSeq(seq, i + 1, i + k)) THEN <<>>
          ELSE IF rc THEN kmer_yielding_with_rc(i, seq, prefix, k, offset, strand)
          ELSE kmer_yielding(i, seq, prefix, k, offset, strand))
         \o yield_kmers_from(i + 1, seq, prefix, k, offset, strand, rc)

\* Sequence.yield_kmers
yield_kmers(seq, prefix, k, offset, strand, rc) ==
    yield_kmers_from(0, UpperSeq(seq), prefix, k, offset, strand, rc)

\* Sequence.kmerator
kmerator(seq, k, prefix, offset, strand, rc) ==
    yield_kmers(seq, prefix, k, offset, strand, rc)

\* KMer.is_ab_checked
is_ab_checked(kmer) == \A i \in DOMAIN kmer.seq : kmer.seq[i] \in AB_DNA

\* (k for k in recordGen if k.is_ab_checked())
RECURSIVE AbChecked(_)
AbChecked(ks) ==
    IF ks = <<>> THEN <<>>
    ELSE (IF is_ab_checked(Head(ks)) THEN <<Head(ks)>> ELSE <<>>) \o AbChecked(Tail(ks))

Min(a, b) == IF a < b THEN a ELSE b

\* the loop of Sequence.batcher from position start on
RECURSIVE batcher_from(_, _, _, _)
batcher_from(seq, k, batchSize, start) ==
    IF start < Len(seq) - k + 1
    THEN <<[seq |-> SubSeq(seq, start + 1, Min(Len(seq), start + batchSize)),
            i |-> start]>>
         \o batcher_from(seq, k, batchSize, start + batchSize - k + 1)
    ELSE <<>>

\* Sequence.batcher: with batchSize < k the start position never advances and
\* the generator never ends
Sequence_batcher(seq, k, batchSize) ==
    IF 0 < Len(seq) - k + 1 /\ batchSize - k + 1 <= 0
    THEN [err |-> "NonTermination", shards |-> <<>>]
    ELSE [err |-> "ok", shards |-> batcher_from(seq, k, batchSize, 0)]

-----------------------------------------------------------------------------
(* Batchers, continued: write_all, feed_collection and the FASTA batchers *)

\* the batcher B with the collection of r, and r's outcome
WithCollection(B, r) == [b |-> [B EXCEPT !.collection = r.c], err |-> r.err]

ConsColl(b, r) == [c |-> <<b>> \o r.c, err |-> r.err]

\* b.write(doSort, force) for the batches of c that hold records, in order,
\* up to the first failure
RECURSIVE write_each(_, _, _)
write_each_from(w, rest, doSort, force) ==
    IF w.err # "ok" THEN [c |-> <<w.b>> \o rest, err |-> w.err]
    ELSE ConsColl(w.b, write_each(rest, doSort, force))

write_each(c, doSort, force) ==
    IF c = <<>> THEN [c |-> <<>>, err |-> "ok"]
    ELSE IF Head(c).i = 0 THEN ConsColl(Head(c), write_each(Tail(c), doSort, force))
    ELSE write_each_from(write(Head(c), doSort, force), Tail(c), doSort, force)

\* BatcherBase.write_all(f, doSort): it calls write(f, doSort) on a batch,
\* whose parameters are (doSort, force), and f is a non-empty string
write_all(B, doSort) == WithCollection(B, write_each(B.collection, TRUE, doSort))

\* batch.unwrite() for every batch of c
RECURSIVE unwrite_each(_)
unwrite_each_from(u, rest) ==
    IF u.err # "ok" THEN [c |-> <<u.b>> \o rest, err |-> u.err]
    ELSE ConsColl(u.b, unwrite_each(rest))

unwrite_each(c) ==
    IF c = <<>> THEN [c |-> <<>>, err |-> "ok"]
    ELSE unwrite_each_from(unwrite(Head(c)), Tail(c))

\* add_record for each record of recs, up to the first failure
RECURSIVE add_records(_, _)
add_records_next(a, rest) == IF a.err # "ok" THEN a ELSE add_records(a.b, rest)

add_records(B, recs) ==
    IF recs = <<>> THEN [b |-> B, err |-> "ok"]
    ELSE add_records_next(add_record(B, Head(recs)), Tail(recs))

\* the records of a generator flow into B
add_generated(B, g) ==
    IF g.err # "ok" THEN [b |-> B, err |-> g.err] ELSE add_records(B, g.recs)

Front(s) == SubSeq(s, 1, Len(s) - 1)

\* BatcherThreading.__flow_batches: pop the donors from the end, add their
\* records one by one, reset each donor; donors is what is left of the list,
\* popped the batches taken from it, as the call leaves them
RECURSIVE flow_batches_from(_, _, _)
flow_batches_next(a, r, rest, popped) ==
    IF a.err # "ok"
    THEN [b |-> a.b, err |-> a.err, donors |-> rest, popped |-> popped]
    ELSE IF r.err # "ok"
    THEN [b |-> a.b, err |-> r.err, donors |-> rest, popped |-> Append(popped, r.b)]
    ELSE flow_batches_from(a.b, rest, Append(popped, r.b))

\* the loop of __flow_batches without batch.reset()
flow_batches_pop_NoReset(B, c, popped) ==
    flow_batches_next(add_generated(B, record_gen(LastOf(c))),
                      [b |-> LastOf(c), err |-> "ok"], Front(c), popped)

\* one round of the loop of __flow_batches
flow_batches_pop(B, c, popped) ==
    flow_batches_next(add_generated(B, record_gen(LastOf(c))),
                      reset(LastOf(c)), Front(c), popped)

flow_batches_from(B, c, popped) ==
    IF c = <<>> THEN [b |-> B, err |-> "ok", donors |-> <<>>, popped |-> popped]
    ELSE flow_batches_pop(B, c, popped)

flow_batches(B, c) == flow_batches_from(B, c, <<>>)

FEED_MODE == {"REPLACE", "FLOW", "APPEND"}

\* Batch.type: the record type the batch was constructed with; KMer unless
\* the batch says otherwise
BatchType(b) == IF "type" \in DOMAIN b THEN b.type ELSE "KMer"

\* BatcherThreading.feed_collection once the donors' type is checked
feed_collection_typed(B, new_collection, mode) ==
    IF mode = "REPLACE"
    THEN [b |-> [B EXCEPT !.collection = new_collection], err |-> "ok",
          donors |-> new_collection, popped |-> <<>>]
    ELSE IF mode = "FLOW" THEN flow_batches(B, new_collection)
    ELSE [b |-> [B EXCEPT !.collection = @ \o new_collection], err |-> "ok",
          donors |-> new_collection, popped |-> <<>>]

\* feed_collection without the check of the donors' record type
feed_collection_Unchecked(B, new_collection, mode) ==
    feed_collection_typed(B, new_collection, mode)

\* BatcherThreading.feed_collection; the batcher's record type is KMer
feed_collection(B, new_collection, mode) ==
    IF \E j \in DOMAIN new_collection : BatchType(new_collection[j]) # "KMer"
    THEN [b |-> B, err |-> "AssertionError", donors |-> new_collection, popped |-> <<>>]
    ELSE feed_collection_typed(B, new_collection, mode)

\* record[0].split(" ")[0]
RECURSIVE FirstWord(_)
FirstWord(h) ==
    IF h = <<>> THEN <<>>
    ELSE IF Head(h) = " " THEN <<>>
    ELSE <<Head(h)>> \o FirstWord(Tail(h))

\* FastaRecordBatcher.__init__(size, threads): it calls
\* BatcherThreading.__init__(threads, size), whose parameters are (size, threads)
FastaRecordBatcher_init(size, threads) == BatcherThreading_init(threads, size)

\* FastaRecordBatcher.from_parent
from_parent(parent) ==
    [FastaRecordBatcher_init(parent.threads, parent.size) EXCEPT !.rc = parent.rc]

\* FastaBatcher.__init__(scan_mode, reverse, threads, size): it calls
\* BatcherThreading.__init__(threads, size), whose parameters are (size, threads)
FastaBatcher_init(scan_mode, reverse, threads, size) ==
    [size |-> BatcherThreading_init(threads, size).size,
     threads |-> BatcherThreading_init(threads, size).threads,
     collection |-> BatcherThreading_init(threads, size).collection,
     rc |-> reverse,
     mode |-> scan_mode]

\* FastaRecordBatcher.build_batch once the k-mers were added (a)
build_batch_filled(a) == IF a.err # "ok" THEN a ELSE write(a.b, TRUE, FALSE)

\* FastaRecordBatcher.build_batch
build_batch(seq, name, k, B, i) ==
    build_batch_filled(
        add_all(Batch_init(B.size),
                AbChecked(kmerator(seq, k, name, i, STRAND_PLUS, B.rc))))

\* Parallel(...)(delayed(build_batch)(...) for each shard): a failing job
\* fails the whole call
RECURSIVE build_batches(_, _, _, _)
build_batches_cons(h, shards, name, k, B) ==
    IF h.err # "ok" THEN [c |-> <<>>, err |-> h.err]
    ELSE ConsColl(h.b, build_batches(shards, name, k, B))

build_batches(shards, name, k, B) ==
    IF shards = <<>> THEN [c |-> <<>>, err |-> "ok"]
    ELSE build_batches_cons(
             build_batch(Head(shards).seq, name, k, B, Head(shards).i),
             Tail(shards), name, k, B)

\* FastaRecordBatcher.do, threads > 1: the built batches are appended
do_fed(B, bs) ==
    IF bs.err # "ok" THEN [b |-> B, err |-> bs.err]
    ELSE feed_collection(B, bs.c, "APPEND")

do_parallel(B, sh, name, k) ==
    IF sh.err # "ok" THEN [b |-> B, err |-> sh.err]
    ELSE do_fed(B, build_batches(sh.shards, name, k, B))

\* FastaRecordBatcher.do: the closing self.write_all()
do_written(d) == IF d.err # "ok" THEN d ELSE write_all(d.b, FALSE)

\* FastaRecordBatcher.do
FastaRecordBatcher_do(B, record, k) ==
    do_written(
        IF B.threads = 1
        THEN add_records(B, AbChecked(kmerator(record.seq, k, FirstWord(record.header),
                                               0, STRAND_PLUS, B.rc)))
        ELSE do_parallel(B, Sequence_batcher(record.seq, k, B.size),
                         FirstWord(record.header), k))

\* do_record of FastaBatcher.__do_over_records: FastaRecordBatcher(1, size)
\* and its do(), returning the collection
do_record(size, record, k) ==
    FastaRecordBatcher_do(FastaRecordBatcher_init(1, size), record, k)

-----------------------------------------------------------------------------
(* SpecFasta: a FastaBatcher and one run of FastaBatcher.do *)

\* largest threads argument given to FastaBatcher
MaxThreads == 3

\* largest k given to FastaBatcher.do
MaxK == 3

MODE == {"KMERS", "RECORDS"}

FastaRecord(h, s) == [header |-> h, seq |-> s]

\* the records of the FASTA files given to do(), as the parser yields them
FastaEmpty == <<>>
FastaOne == <<FastaRecord(<<"r">>, <<"A", "T">>)>>
FastaTwo == <<FastaRecord(<<"a", " ", "d">>, <<"A", "C", "a", "C">>),
              FastaRecord(<<"b">>, <<"C", "A", "U", "A">>)>>

FastaInputs == {FastaEmpty, FastaOne, FastaTwo}

\* the state of a FastaBatcher fb before, during and after do()
Pipe(pc, fb, sub, pend, chain, input, k, feedMode, e) ==
    [pc |-> pc, fb |-> fb, sub |-> sub, pend |-> pend, chain |-> chain,
     input |-> input, k |-> k, feedMode |-> feedMode, err |-> e]

InitFasta ==
    /\ pipe \in {Pipe("ready", FastaBatcher_init(m, rv, t, n), <<>>, <<>>, <<>>,
                      <<>>, 0, "APPEND", "ok") :
                 m \in MODE, rv \in BOOLEAN, t \in 1..MaxThreads, n \in 1..MaxSize}
    /\ batcher = <<>>
    /\ batch = Batch_init(1)
    /\ added = <<>>
    /\ wmode = "none"
    /\ op = Call("init", <<>>, FALSE, FALSE)
    /\ err = "ok"
    /\ out = <<>>
    /\ vector = <<>>

PipeStep(p) ==
    /\ pipe' = p
    /\ UNCHANGED <<batch, added, wmode, op, err, out, batcher, vector>>

Failed(e) == [pipe EXCEPT !.pc = "failed", !.err = e]

\* FastaBatcher.do up to the scan of the first record
Do(fasta, k, feedMode) ==
    /\ pipe.pc = "ready"
    /\ PipeStep(IF k <= 1
                THEN [pipe EXCEPT !.pc = "failed", !.err = "AssertionError",
                                  !.input = fasta, !.k = k, !.feedMode = feedMode]
                ELSE [pipe EXCEPT !.pc = IF pipe.fb.mode = "KMERS" THEN "kmers" ELSE "records",
                                  !.sub = IF pipe.fb.mode = "KMERS"
                                          THEN from_parent(pipe.fb) ELSE <<>>,
                                  !.pend = fasta, !.input = fasta,
                                  !.k = k, !.feedMode = feedMode])

\* __do_over_kmers: the batches are unwritten after batcher.do(record, k) (u)
OverKmersUnwritten(u) ==
    IF u.err # "ok" THEN Failed(u.err)
    ELSE [pipe EXCEPT !.sub.collection = u.c, !.pend = Tail(pipe.pend)]

OverKmersDone(d) ==
    IF d.err # "ok" THEN [pipe EXCEPT !.pc = "failed", !.err = d.err, !.sub = d.b]
    ELSE OverKmersUnwritten(unwrite_each(d.b.collection))

\* one iteration of the loop of FastaBatcher.__do_over_kmers
OverKmersRecord ==
    /\ pipe.pc = "kmers"
    /\ pipe.pend # <<>>
    /\ PipeStep(OverKmersDone(FastaRecordBatcher_do(pipe.sub, Head(pipe.pend), pipe.k)))

\* the batcher after write_all (w), the donor list after the feed
Finished(w, donors) ==
    [pipe EXCEPT !.pc = IF w.err = "ok" THEN "done" ELSE "failed",
                 !.err = w.err, !.fb = w.b, !.sub = donors]

OverKmersFed(f) ==
    IF f.err # "ok" THEN [pipe EXCEPT !.pc = "failed", !.err = f.err, !.fb = f.b]
    ELSE Finished(write_all(f.b, TRUE),
                  IF pipe.feedMode = "FLOW"
                  THEN [pipe.sub EXCEPT !.collection = <<>>] ELSE pipe.sub)

\* the end of FastaBatcher.__do_over_kmers: feed_collection, write_all
OverKmersFeed ==
    /\ pipe.pc = "kmers"
    /\ pipe.pend = <<>>
    /\ PipeStep(OverKmersFed(feed_collection(pipe.fb, pipe.sub.collection, pipe.feedMode)))

OverRecordsDone(d) ==
    IF d.err # "ok" THEN Failed(d.err)
    ELSE [pipe EXCEPT !.chain = @ \o d.b.collection, !.pend = Tail(pipe.pend)]

\* one job of the Parallel call of FastaBatcher.__do_over_records
OverRecordsRecord ==
    /\ pipe.pc = "records"
    /\ pipe.pend # <<>>
    /\ PipeStep(OverRecordsDone(do_record(pipe.fb.size, Head(pipe.pend), pipe.k)))

\* do_sort_write(b), i.e. b.write(True), for the batches that hold records
OverRecordsFed(f) ==
    IF f.err # "ok" THEN [pipe EXCEPT !.pc = "failed", !.err = f.err, !.fb = f.b]
    ELSE Finished(WithCollection(f.b, write_each(f.b.collection, TRUE, FALSE)),
                  <<>>)

\* the end of FastaBatcher.__do_over_records: feed_collection, sorted writes
OverRecordsFeed ==
    /\ pipe.pc = "records"
    /\ pipe.pend = <<>>
    /\ PipeStep(OverRecordsFed(feed_collection(pipe.fb, pipe.chain, pipe.feedMode)))

NextFasta ==
    \/ \E fasta \in FastaInputs, k \in 1..MaxK, feedMode \in FEED_MODE :
          Do(fasta, k, feedMode)
    \/ OverKmersRecord
    \/ OverKmersFeed
    \/ OverRecordsRecord
    \/ OverRecordsFeed

SpecFasta == InitFasta /\ [][NextFasta]_vars

\* the records held by the batches of a collection, in collection order
RECURSIVE RecordsOf(_)
RecordsOf(c) == IF c = <<>> THEN <<>> ELSE record_gen(Head(c)).recs \o RecordsOf(Tail(c))

\* the multiset of the elements of a sequence
BagOf(s) ==
    [x \in {s[i] : i \in DOMAIN s} |-> Cardinality({i \in DOMAIN s : s[i] = x})]

\* the window of record rec at position i (from 0), upper-cased
Window(rec, i, k) == [j \in 1..k |-> Upper(rec.seq[i + j])]

\* positions of the windows of rec that pass the alphabet check
CleanAt(rec, k) ==
    {i \in 0..(Len(rec.seq) - k) : \A j \in 1..k : Window(rec, i, k)[j] \in AB_DNA}

\* the windows expected for an input: <<record, position, strand>> for every
\* clean window, on both strands when reverse complements are enabled
ExpectedWindows(input, k, reverse) ==
    UNION {{<<n, i, st>> : i \in CleanAt(input[n], k),
                           st \in IF reverse THEN {STRAND_PLUS, STRAND_MINUS}
                                  ELSE {STRAND_PLUS}} :
           n \in DOMAIN input}

\* the k-mer of an expected window
KMerAt(input, k, e) ==
    KMer(FirstWord(input[e[1]].header), e[2], e[2] + k,
         IF e[3] = STRAND_PLUS THEN Window(input[e[1]], e[2], k)
         ELSE mkrc(Window(input[e[1]], e[2], k)),
         e[3])

\* the multiset of k-mers expected for an input
ExpectedBag(input, k, reverse) ==
    [x \in {KMerAt(input, k, e) : e \in ExpectedWindows(input, k, reverse)} |->
        Cardinality({e \in ExpectedWindows(input, k, reverse) : KMerAt(input, k, e) = x})]

C11_FromFile ==
    [][(op'.name = "from_file" /\ err' = "ok") =>
          /\ batch'.written
          /\ is_full(batch')
          /\ batch'.file.exists
          /\ ~op'.doSort => batch'.file = batch.file
          /\ batch'.i = Len(SimpleFastaParser(batch'.file.content))
          /\ BagOf(record_gen(batch').recs) = BagOf(record_gen(batch).recs)]_vars

-----------------------------------------------------------------------------
(* SpecSeq: the k-mer producer and the shard helper applied to one sequence *)

\* longest sequence given to the k-mer producer
MaxLen == 3

\* characters of the sequences: two bases, a lower-case base, and a character
\* outside the DNA alphabet
SeqChars == {"A", "C", "t", "U"}

\* all sequences over SeqChars of length n
RECURSIVE SeqsOfLen(_)
SeqsOfLen(n) ==
    IF n = 0 THEN {<<>>}
    ELSE {Append(s, c) : s \in SeqsOfLen(n - 1), c \in SeqChars}

\* the arguments of a call: Sequence.kmerator(seq, k, t, prefix, offset, rc=rc)
\* or Sequence.batcher(seq, k, batchSize)
SeqCall(name, seq, k, offset, rc, batchSize) ==
    [name |-> name, seq |-> seq, k |-> k, offset |-> offset, rc |-> rc,
     batchSize |-> batchSize, prefix |-> <<"r">>]

InitSeq ==
    /\ op \in {SeqCall("input", s, k, o, rc, n) :
                 s \in UNION {SeqsOfLen(l) : l \in 0..MaxLen}, k \in 1..MaxK,
                 o \in {0, 5}, rc \in BOOLEAN, n \in 1..MaxSize}
    /\ out = <<>>
    /\ vector = <<>>
    /\ err = "ok"
    /\ batch = Batch_init(1)
    /\ added = <<>>
    /\ wmode = "none"
    /\ batcher = <<>>
    /\ pipe = <<>>

SeqReturned(name, result, e) ==
    /\ op' = [op EXCEPT !.name = name]
    /\ out' = result
    /\ err' = e
    /\ UNCHANGED <<batch, added, wmode, batcher, pipe, vector>>

\* list(Sequence.kmerator(seq, k, t, prefix, offset, rc=rc))
Kmerator ==
    /\ op.name = "input"
    /\ SeqReturned("kmerator",
                   kmerator(op.seq, op.k, op.prefix, op.offset, STRAND_PLUS, op.rc),
                   "ok")

\* the k-mers produced from each shard with the shard's offset, in shard order
RECURSIVE ShardKmers(_, _, _, _)
ShardKmers(shards, k, prefix, rc) ==
    IF shards = <<>> THEN <<>>
    ELSE kmerator(Head(shards).seq, k, prefix, Head(shards).i, STRAND_PLUS, rc)
         \o ShardKmers(Tail(shards), k, prefix, rc)

BatcherDone(sh) ==
    SeqReturned("batcher",
                [shards |-> sh.shards,
                 kmers |-> ShardKmers(sh.shards, op.k, op.prefix, op.rc)],
                sh.err)

\* list(Sequence.batcher(seq, k, batchSize)), then the producer on each shard
Batcher ==
    /\ op.name = "input"
    /\ BatcherDone(Sequence_batcher(op.seq, op.k, op.batchSize))

NextSeq == Kmerator \/ Batcher

SpecSeq == InitSeq /\ [][NextSeq]_vars

\* the upper-cased window of seq at position i (from 0)
WindowOf(seq, i, k) == [j \in 1..k |-> Upper(seq[i + j])]

\* positions of the windows of seq that pass the alphabet check
CleanPositions(seq, k) ==
    {i \in 0..(Len(seq) - k) : \A j \in 1..k : WindowOf(seq, i, k)[j] \in AB_DNA}

\* C12 (as claimed): the k-mer producer emits, for a sequence seq, length k and
\* offset o, one k-mer for every position i in [0, |seq|-k] and no other, in
\* increasing i, with start = o + i, end = start + k and text seq[i:i+k].
C12_EveryPosition ==
    (op.name = "kmerator" /\ ~op.rc) =>
        /\ Len(out) = (IF Len(op.seq) >= op.k THEN Len(op.seq) - op.k + 1 ELSE 0)
        /\ \A j \in DOMAIN out :
              out[j] = KMer(op.prefix, op.offset + j - 1, op.offset + j - 1 + op.k,
                            SubSeq(op.seq, j, j + op.k - 1), STRAND_PLUS)

\* C12 (amended): the k-mer producer emits one k-mer for every position i in
\* [0, |seq|-k] whose upper-cased window passes the alphabet check and no
\* other, in increasing i, with start = o + i, end = start + k and as text the
\* upper-cased seq[i:i+k]; hence at most one k-mer when k = |seq| and none
\* when k > |seq|.
C12_CleanPositions ==
    (op.name = "kmerator" /\ ~op.rc) =>
        /\ {out[j].start - op.offset : j \in DOMAIN out} = CleanPositions(op.seq, op.k)
        /\ Len(out) = Cardinality(CleanPositions(op.seq, op.k))
        /\ \A j \in DOMAIN out :
              /\ out[j] = KMer(op.prefix, out[j].start, out[j].start + op.k,
                               WindowOf(op.seq, out[j].start - op.offset, op.k),
                               STRAND_PLUS)
              /\ j > 1 => out[j - 1].start < out[j].start
        /\ Len(op.seq) < op.k => out = <<>>
        /\ Len(op.seq) = op.k => Len(out) <= 1

\* C12 witness: with a lower-case base and a character outside the alphabet,
\* the producer emitted the upper-cased first window and skipped the second
C12_Witness ==
    /\ op.name = "kmerator" /\ ~op.rc
    /\ op.seq = <<"A", "t", "U">> /\ op.k = 2 /\ op.offset = 5
    /\ out = <<KMer(<<"r">>, 5, 7, <<"A", "T">>, STRAND_PLUS)>>

\* C13 (as claimed): for every sequence, k and batch size, the shards yielded
\* by Sequence.batcher cover the k-mer start positions [0, |seq|-k] exactly
\* once: the k-mer producer run on each shard with the shard's offset yields
\* every k-mer of the sequence once, with absolute coordinates.
C13_ShardsCover ==
    (op.name = "batcher") =>
        /\ err = "ok"
        /\ out.kmers = kmerator(op.seq, op.k, op.prefix, 0, STRAND_PLUS, op.rc)

-----------------------------------------------------------------------------
(* the alphabet check along the FASTA pipeline (SpecFasta) *)

\* the records stored by the final collection
Stored == {RecordsOf(pipe.fb.collection)[j] : j \in DOMAIN RecordsOf(pipe.fb.collection)}

\* the alphabet-clean k-mers of the input records, as read on the plus strand
CleanKMers ==
    {KMerAt(pipe.input, pipe.k, <<n, i, STRAND_PLUS>>) :
       <<n, i>> \in UNION {{<<n, i>> : i \in CleanAt(pipe.input[n], pipe.k)} :
                            n \in DOMAIN pipe.input}}

C14_Holds(stored) ==
    /\ \A r \in stored : \A j \in DOMAIN r.seq : r.seq[j] \in AB_DNA
    /\ CleanKMers \subseteq stored

-----------------------------------------------------------------------------
(* join.py: the merge crawler *)

\* the first error among the outcomes of a list of generators
RECURSIVE FirstErr(_)
FirstErr(gens) ==
    IF gens = <<>> THEN "ok"
    ELSE IF Head(gens).err # "ok" THEN Head(gens).err
    ELSE FirstErr(Tail(gens))

\* heapq.merge(*generators, key=lambda x: x[1]): the smallest head first, the
\* earliest generator first among equal keys
RECURSIVE merge(_)
merge(gens) ==
    IF \A g \in DOMAIN gens : gens[g] = <<>> THEN <<>>
    ELSE LET g == CHOOSE g \in DOMAIN gens :
                    /\ gens[g] # <<>>
                    /\ \A h \in DOMAIN gens :
                          \/ gens[h] = <<>>
                          \/ StrLess(gens[g][1].seq, gens[h][1].seq)
                          \/ (gens[g][1].seq = gens[h][1].seq /\ g <= h)
         IN  <<gens[g][1]>> \o merge([gens EXCEPT ![g] = Tail(gens[g])])

\* Crawler.do_records: (str(r.header), str(r.seq)) for the records of a KMer batch
HeaderSeq(recs) == [j \in DOMAIN recs |-> [h |-> header(recs[j]), seq |-> recs[j].seq]]

\* Crawler.do_records: the generator of one KMer batch
RecordPairs(b, doSort) ==
    IF doSort THEN [err |-> sorted(b).err, pairs |-> HeaderSeq(sorted(b).recs)]
    ELSE [err |-> record_gen(b).err, pairs |-> HeaderSeq(record_gen(b).recs)]

\* Crawler.do_records over the generators gens
do_records_merged(gens) ==
    IF FirstErr(gens) # "ok" THEN [err |-> FirstErr(gens), pairs |-> <<>>]
    ELSE [err |-> "ok", pairs |-> merge([g \in DOMAIN gens |-> gens[g].pairs])]

\* Crawler.do_records
do_records(batches, doSort) ==
    do_records_merged([j \in DOMAIN batches |-> RecordPairs(batches[j], doSort)])

\* the loop of Crawler.do_batch without the group left at the end
RECURSIVE do_batch_loop_DropsLast(_, _, _)
do_batch_loop_DropsLast(rest, current_headers, current_seq) ==
    IF rest = <<>> THEN <<>>
    ELSE IF current_seq = Head(rest).seq
    THEN do_batch_loop_DropsLast(Tail(rest), Append(current_headers, Head(rest).h),
                                 current_seq)
    ELSE <<[headers |-> current_headers, seq |-> current_seq]>>
         \o do_batch_loop_DropsLast(Tail(rest), <<Head(rest).h>>, Head(rest).seq)

\* the loop of Crawler.do_batch: headers accumulate while seq stays equal
RECURSIVE do_batch_loop(_, _, _)
do_batch_loop(rest, current_headers, current_seq) ==
    IF rest = <<>> THEN <<[headers |-> current_headers, seq |-> current_seq]>>
    ELSE IF current_seq = Head(rest).seq
    THEN do_batch_loop(Tail(rest), Append(current_headers, Head(rest).h), current_seq)
    ELSE <<[headers |-> current_headers, seq |-> current_seq]>>
         \o do_batch_loop(Tail(rest), <<Head(rest).h>>, Head(rest).seq)

\* Crawler.do_batch over the crawled records
do_batch_grouped(c) ==
    IF c.err # "ok" THEN [err |-> c.err, groups |-> <<>>]
    ELSE IF c.pairs = <<>> THEN [err |-> "ok", groups |-> <<>>]
    ELSE [err |-> "ok",
          groups |-> do_batch_loop(Tail(c.pairs), <<Head(c.pairs).h>>, Head(c.pairs).seq)]

\* Crawler.do_batch
do_batch(batches, doSort) == do_batch_grouped(do_records(batches, doSort))

-----------------------------------------------------------------------------
(* abundance.py: AbundanceVector *)

\* the class attributes __data and _ks as the module is imported
AbundanceVector_class == [data |-> <<>>, ks |-> {}]

\* AbundanceVector(): the class defines no __init__, so an instance reads and
\* mutates the class attributes it is given
AbundanceVector_new(class) == class

\* np.zeros(size)
zeros(size) == [j \in 1..size |-> 0]

\* add_ref that allocates a fresh zero vector on every call
add_ref_Resets(v, ref, strand, size) ==
    [v EXCEPT !.data = [x \in DOMAIN v.data \cup {<<ref, strand>>} |->
                           IF x = <<ref, strand>> THEN zeros(size) ELSE v.data[x]]]

\* AbundanceVector.add_ref
add_ref(v, ref, strand, size) ==
    IF <<ref, strand>> \notin DOMAIN v.data
    THEN [v EXCEPT !.data = [x \in DOMAIN v.data \cup {<<ref, strand>>} |->
                                IF x = <<ref, strand>> THEN zeros(size) ELSE v.data[x]]]
    ELSE IF size > Len(v.data[<<ref, strand>>])
    THEN [v EXCEPT !.data[<<ref, strand>>] =
                      [j \in 1..size |-> IF j <= Len(@) THEN @[j] ELSE 0]]
    ELSE v

\* AbundanceVector.add_count once the length is checked and the vector is
\* long enough
add_count_checked(v, ref, strand, pos, count, replace) ==
    IF ~replace /\ v.data[<<ref, strand>>][pos + 1] # 0
    THEN [v |-> v, err |-> "AbundanceConflict"]
    ELSE [v |-> [v EXCEPT !.data[<<ref, strand>>][pos + 1] = count], err |-> "ok"]

\* AbundanceVectorBase.check_length, then the rest of add_count when it passes
add_count_lengths(v, ref, strand, pos, count, replace) ==
    IF Cardinality(v.ks) # 1 THEN [v |-> v, err |-> "InconsistentK"]
    ELSE add_count_checked(add_ref(v, ref, strand, pos + 1), ref, strand, pos,
                           count, replace)

\* AbundanceVector.add_count
add_count(v, ref, strand, pos, count, k, replace) ==
    add_count_lengths([v EXCEPT !.ks = @ \cup {k}], ref, strand, pos, count, replace)

-----------------------------------------------------------------------------
(* join.py: KJoiner *)

JOIN_MODE == {"UNIQUE", "SEQ_COUNT", "VEC_COUNT", "VEC_COUNT_MASKED"}

TAB == "\t"

\* what a join holds while it runs: the text written to OH, the vector, the
\* error raised
JoinState(text, v, e) == [text |-> text, v |-> v, err |-> e]

\* KJoiner.join_unique writing the first header of every group
join_unique_Always(st, headers, seq) ==
    [st EXCEPT !.text = @ \o <<">">> \o headers[1] \o <<NL>> \o seq \o <<NL>>]

\* KJoiner.join_unique
join_unique(st, headers, seq) ==
    IF Len(headers) # 1 THEN st
    ELSE [st EXCEPT !.text = @ \o <<">">> \o headers[1] \o <<NL>> \o seq \o <<NL>>]

\* KJoiner.join_sequence_count writing a count of 1 for every sequence
join_sequence_count_One(st, headers, seq) ==
    [st EXCEPT !.text = @ \o seq \o <<TAB>> \o Dec(1) \o <<NL>>]

\* KJoiner.join_sequence_count
join_sequence_count(st, headers, seq) ==
    [st EXCEPT !.text = @ \o seq \o <<TAB>> \o Dec(Len(headers)) \o <<NL>>]

\* vector.add_count for the parsed coordinates c
add_count_at(st, c, hcount, k) ==
    IF ~c.ok THEN [st EXCEPT !.err = "MalformedHeader"]
    ELSE JoinState(st.text, add_count(st.v, c.ref, c.strand, c.start, hcount, k, FALSE).v,
                   add_count(st.v, c.ref, c.strand, c.start, hcount, k, FALSE).err)

\* the loop of KJoiner.join_vector_count from header j on
RECURSIVE join_vector_count_from(_, _, _, _)
join_vector_count_from(st, headers, seq, j) ==
    IF j > Len(headers) \/ st.err # "ok" THEN st
    ELSE join_vector_count_from(
             add_count_at(st, from_str(headers[j]), Len(headers), Len(seq)),
             headers, seq, j + 1)

\* KJoiner.join_vector_count
join_vector_count(st, headers, seq) == join_vector_count_from(st, headers, seq, 1)

\* refCounts[refList != h.ref].sum()
OtherRefs(coords, h) == Cardinality({j \in DOMAIN coords : coords[j].ref # h.ref})

\* the loop of KJoiner.join_vector_count_masked from header j on
RECURSIVE join_vector_count_masked_from(_, _, _, _)
join_vector_count_masked_from(st, coords, seq, j) ==
    IF j > Len(coords) \/ st.err # "ok" THEN st
    ELSE join_vector_count_masked_from(
             add_count_at(st, coords[j], OtherRefs(coords, coords[j]), Len(seq)),
             coords, seq, j + 1)

\* KJoiner.join_vector_count_masked once the headers are parsed
join_vector_count_masked_parsed(st, coords, seq) ==
    IF \E j \in DOMAIN coords : ~coords[j].ok THEN [st EXCEPT !.err = "MalformedHeader"]
    ELSE IF Len(coords) = 1 THEN st
    ELSE IF Cardinality({coords[j].ref : j \in DOMAIN coords}) = 1 THEN st
    ELSE join_vector_count_masked_from(st, coords, seq, 1)

\* KJoiner.join_vector_count_masked
join_vector_count_masked(st, headers, seq) ==
    join_vector_count_masked_parsed(st, [j \in DOMAIN headers |-> from_str(headers[j])], seq)

\* KJoiner.join_function
join_function(mode, st, headers, seq) ==
    CASE mode = "UNIQUE" -> join_unique(st, headers, seq)
      [] mode = "SEQ_COUNT" -> join_sequence_count(st, headers, seq)
      [] mode = "VEC_COUNT" -> join_vector_count(st, headers, seq)
      [] mode = "VEC_COUNT_MASKED" -> join_vector_count_masked(st, headers, seq)

\* KJoiner._pre_join: an empty output file, or a vector
pre_join(mode, class) == JoinState(<<>>, AbundanceVector_new(class), "ok")

\* the loop of KJoiner.join over the groups
RECURSIVE join_groups(_, _, _)
join_groups(mode, st, groups) ==
    IF groups = <<>> \/ st.err # "ok" THEN st
    ELSE join_groups(mode, join_function(mode, st, Head(groups).headers, Head(groups).seq),
                     Tail(groups))

\* KJoiner.join once the crawler is set up (g: what do_batch yields)
join_crawled(mode, st, g) ==
    IF g.err # "ok" THEN [st EXCEPT !.err = g.err]
    ELSE join_groups(mode, st, g.groups)

\* KJoiner.join
KJoiner_join(mode, class, batches) ==
    join_crawled(mode, pre_join(mode, class), do_batch(batches, FALSE))

\* AbundanceVector.write_to: one file per reference and strand, the k of the
\* vector then the counts
write_to(v) ==
    [x \in DOMAIN v.data |-> [k |-> (CHOOSE k \in v.ks : TRUE), counts |-> v.data[x]]]

\* KJoiner._post_join: the vectors are written in the VEC_ modes
post_join(mode, st) ==
    [text |-> st.text,
     written |-> IF mode \in {"VEC_COUNT", "VEC_COUNT_MASKED"} /\ st.err = "ok"
                 THEN write_to(st.v) ELSE <<>>]

-----------------------------------------------------------------------------
(* join.py: SeqCountBatcher and KJoinerThreading *)

\* " ".join(headers)
RECURSIVE JoinSpace(_)
JoinSpace(hs) ==
    IF hs = <<>> THEN <<>>
    ELSE IF Len(hs) = 1 THEN hs[1]
    ELSE hs[1] \o <<" ">> \o JoinSpace(Tail(hs))

\* SequenceCount.as_text: "%s\t%s" % (seq, " ".join(header)) + "\n"
as_text(g) == g.seq \o <<TAB>> \o JoinSpace(g.headers) \o <<NL>>

\* str.split(sep): the pieces between the separators, cur being the piece read
RECURSIVE Split(_, _, _)
Split(s, sep, cur) ==
    IF s = <<>> THEN <<cur>>
    ELSE IF s[1] = sep THEN <<cur>> \o Split(Tail(s), sep, <<>>)
    ELSE Split(Tail(s), sep, Append(cur, s[1]))

\* SequenceCount.from_text once the line is split on "\t"
from_text_split(parts) ==
    IF Len(parts) # 2 THEN [err |-> "ValueError", headers |-> <<>>, seq |-> <<>>]
    ELSE [err |-> "ok", headers |-> Split(parts[2], " ", <<>>), seq |-> parts[1]]

\* SequenceCount.from_text (the line holds no blank but its line break)
from_text(line) == from_text_split(Split(RStrip(line), TAB, <<>>))

\* str(r.header) for a list of strings: "['h1', 'h2']"
RECURSIVE ListReprFrom(_)
ListReprFrom(hs) ==
    IF hs = <<>> THEN <<>>
    ELSE <<"'">> \o hs[1] \o <<"'">>
         \o (IF Len(hs) = 1 THEN <<>> ELSE <<",", " ">>) \o ListReprFrom(Tail(hs))

ListRepr(hs) == <<"[">> \o ListReprFrom(hs) \o <<"]">>

\* Batch.record_gen(smart=True) / BatchAppendable.record_gen(smart=True) of a
\* FASTA batch: SmartFastaParser.parse_file is given the open handle and
\* calls path.exists() on it
record_gen_smart(b) ==
    IF b.cls = "Batch" /\ ~b.written THEN [err |-> "ok", recs |-> NotNone(b.records)]
    ELSE IF b.cls = "BatchAppendable" /\ b.i = 0 THEN [err |-> "ok", recs |-> <<>>]
    ELSE IF ~b.file.exists THEN [err |-> "FileNotFoundError", recs |-> <<>>]
    ELSE [err |-> "AttributeError", recs |-> <<>>]

\* Crawler.do_records with doSmart: the generator of one KMer batch
RecordPairsSmart(b, doSort) ==
    IF doSort
    THEN [err |-> record_gen_smart(b).err,
          pairs |-> HeaderSeq(SortByKey(record_gen_smart(b).recs))]
    ELSE [err |-> record_gen_smart(b).err, pairs |-> HeaderSeq(record_gen_smart(b).recs)]

\* Crawler.do_batch with doSmart over KMer batches
do_batch_smart(batches, doSort) ==
    do_batch_grouped(
        do_records_merged([j \in DOMAIN batches |-> RecordPairsSmart(batches[j], doSort)]))

\* Crawler.count_records
RECURSIVE count_records(_)
count_records(batches) ==
    IF batches = <<>> THEN 0 ELSE Head(batches).i + count_records(Tail(batches))

\* BatchAppendable.add of a SequenceCount with fwrite = "as_text"
RECURSIVE add_all_as_text(_, _)
add_all_as_text(b, groups) ==
    IF groups = <<>> THEN [b |-> b, err |-> "ok"]
    ELSE IF is_full(b) THEN [b |-> b, err |-> "BatchFull"]
    ELSE add_all_as_text([b EXCEPT !.file = FileOf(b.file.content \o as_text(Head(groups))),
                                   !.i = b.i + 1, !.remaining = b.remaining - 1],
                         Tail(groups))

\* SeqCountBatcher.build_batch once the sublist is crawled
build_batch_crawled(g, size) ==
    IF g.err # "ok" THEN [b |-> BatchAppendable_init(size), err |-> g.err]
    ELSE add_all_as_text(BatchAppendable_init(size), g.groups)

\* max(crawling.count_records(recordBatchList), 1)
Max1(n) == IF n < 1 THEN 1 ELSE n

\* SeqCountBatcher.build_batch
SeqCountBatcher_build_batch(recordBatchList, doSort) ==
    build_batch_crawled(do_batch_smart(recordBatchList, doSort),
                        Max1(count_records(recordBatchList)))

\* SeqCountBatcher.do: the sublists of n_batches batches, one batch built from
\* each
RECURSIVE SeqCountBatcher_do(_, _, _)
SeqCountBatcher_do(recordBatch, n_batches, doSort) ==
    IF recordBatch = <<>> THEN <<>>
    ELSE <<SeqCountBatcher_build_batch(
               SubSeq(recordBatch, 1, Min(Len(recordBatch), n_batches)), doSort)>>
         \o SeqCountBatcher_do(
                SubSeq(recordBatch, Min(Len(recordBatch), n_batches) + 1, Len(recordBatch)),
                n_batches, doSort)

\* the records of a SequenceCount batch: one per line of its file
SeqCounts(b) ==
    IF b.i = 0 THEN <<>>
    ELSE [j \in DOMAIN SplitLines(b.file.content, <<>>) |->
             from_text(SplitLines(b.file.content, <<>>)[j])]

\* Crawler.do_records: (str(r.header), str(r.seq)) for a SequenceCount batch
SeqCountPairs(b) ==
    [err |-> IF \E j \in DOMAIN SeqCounts(b) : SeqCounts(b)[j].err # "ok"
             THEN "ValueError" ELSE "ok",
     pairs |-> [j \in DOMAIN SeqCounts(b) |->
                  [h |-> ListRepr(SeqCounts(b)[j].headers), seq |-> SeqCounts(b)[j].seq]]]

\* list(chain(*headers)): the elements of each header, which is a string
RECURSIVE chain(_)
chain(headers) ==
    IF headers = <<>> THEN <<>>
    ELSE [j \in DOMAIN Head(headers) |-> <<Head(headers)[j]>>] \o chain(Tail(headers))

\* the loop of SeqCountBatcher.join over the groups
RECURSIVE SeqCountBatcher_join_groups(_, _, _)
SeqCountBatcher_join_groups(mode, st, groups) ==
    IF groups = <<>> \/ st.err # "ok" THEN st
    ELSE SeqCountBatcher_join_groups(
             mode,
             join_function(mode, st, chain(Head(groups).headers), Head(groups).seq),
             Tail(groups))

\* SeqCountBatcher.join once the collection is crawled
SeqCountBatcher_join_crawled(mode, st, g) ==
    IF g.err # "ok" THEN [st EXCEPT !.err = g.err]
    ELSE SeqCountBatcher_join_groups(mode, st, g.groups)

\* SeqCountBatcher.join
SeqCountBatcher_join(mode, st, collection) ==
    SeqCountBatcher_join_crawled(
        mode, st,
        do_batch_grouped(
            do_records_merged([j \in DOMAIN collection |-> SeqCountPairs(collection[j])])))

\* KJoinerThreading.__parallel_join once the intermediate batches are built
parallel_join_built(mode, st, built) ==
    IF FirstErr(built) # "ok" THEN [st EXCEPT !.err = FirstErr(built)]
    ELSE SeqCountBatcher_join(mode, st, [j \in DOMAIN built |-> built[j].b])

\* KJoinerThreading.__parallel_join
parallel_join(mode, class, batches, batch_size, doSort) ==
    parallel_join_built(mode, pre_join(mode, class),
                        SeqCountBatcher_do(batches, batch_size, doSort))

\* KJoinerThreading.join
KJoinerThreading_join(mode, class, batches, threads, batch_size, doSort) ==
    IF ClampThreads(threads) = 1 THEN KJoiner_join(mode, class, batches)
    ELSE parallel_join(mode, class, batches, batch_size, doSort)

-----------------------------------------------------------------------------
(* SpecJoin: crawling and joining a list of batches *)

\* most batches given to the joiner
MaxBatches == 3

\* a second k-mer AC of the reference r
K_AC3 == KMer(<<"r">>, 3, 5, <<"A", "C">>, STRAND_PLUS)

\* the k-mers spread over the batches, in the order they are added
JoinPool == <<K_CA, K_AC, K_AC2, K_AC3>>

\* the entries of s whose index is in keep, in order
RECURSIVE Pick(_, _, _)
Pick(s, keep, j) ==
    IF j > Len(s) THEN <<>>
    ELSE (IF j \in keep THEN <<s[j]>> ELSE <<>>) \o Pick(s, keep, j + 1)

\* how the batches given to the joiner were left by the batcher
BATCH_KIND == {"sorted", "unsorted", "memory"}

\* a full batch holding recs: written sorted on seq, written in add order, or
\* still in memory
BatchOfKind(filled, kind) ==
    IF kind = "memory" THEN filled ELSE write(filled, kind = "sorted", FALSE).b

\* the batches of an assignment f of the pool's k-mers to batches 1..MaxBatches
\* (0: the k-mer is in no batch); batches without k-mer are left out
RECURSIVE BatchesOf(_, _, _)
BatchesOf(f, kind, n) ==
    IF n > MaxBatches THEN <<>>
    ELSE (IF \E j \in DOMAIN f : f[j] = n
          THEN <<BatchOfKind(
                     add_all(Batch_init(Cardinality({j \in DOMAIN f : f[j] = n})),
                             Pick(JoinPool, {j \in DOMAIN f : f[j] = n}, 1)).b,
                     kind)>>
          ELSE <<>>)
         \o BatchesOf(f, kind, n + 1)

\* the lists of batches given to the joiner
JoinInputs(kinds) ==
    {BatchesOf(f, kind, 1) : f \in [DOMAIN JoinPool -> 0..MaxBatches], kind \in kinds}

\* a call on the batches: Crawler.do_batch, KJoiner.join or KJoinerThreading.join
JoinCall(name, batches, mode, threads, doSort, n) ==
    [name |-> name, batches |-> batches, mode |-> mode, threads |-> threads,
     doSort |-> doSort, n |-> n]

\* every batch holds its records sorted on seq
IsSorted(recs) ==
    \A j \in 1..(Len(recs) - 1) : ~StrLess(recs[j + 1].seq, recs[j].seq)

SortedBatches(batches) == \A j \in DOMAIN batches : IsSorted(record_gen(batches[j]).recs)

\* most calls made in one process
MaxJoins == 2

InitJoin ==
    /\ op \in {JoinCall("input", bs, "UNIQUE", 1, FALSE, 0) :
                 bs \in JoinInputs({"sorted", "unsorted"})}
    /\ out = <<>>
    /\ err = "ok"
    /\ vector = AbundanceVector_class
    /\ batch = Batch_init(1)
    /\ added = <<>>
    /\ wmode = "none"
    /\ batcher = <<>>
    /\ pipe = <<>>

JoinReturned(call, result, v, e) ==
    /\ op' = call
    /\ out' = result
    /\ vector' = v
    /\ err' = e
    /\ UNCHANGED <<batch, added, wmode, batcher, pipe>>

DoBatchDone(g, doSort) ==
    JoinReturned(JoinCall("do_batch", op.batches, op.mode, 1, doSort, op.n + 1),
                 [groups |-> g.groups], vector, g.err)

\* list(Crawler().do_batch(batches)) with crawler.doSort = doSort
DoBatch(doSort) ==
    /\ op.n < MaxJoins
    /\ DoBatchDone(do_batch(op.batches, doSort), doSort)

JoinDone(st, mode, threads, doSort) ==
    JoinReturned(JoinCall("join", op.batches, mode, threads, doSort, op.n + 1),
                 post_join(mode, st), st.v, st.err)

\* KJoiner(mode).join(batches, outpath)
Join(mode) ==
    /\ op.n < MaxJoins
    /\ JoinDone(KJoiner_join(mode, vector, op.batches), mode, 1, FALSE)

NextJoin ==
    \/ \E doSort \in BOOLEAN : DoBatch(doSort)
    \/ \E mode \in JOIN_MODE : Join(mode)

SpecJoin == InitJoin /\ [][NextJoin]_vars

-----------------------------------------------------------------------------
(* SpecThreading: one KJoinerThreading.join in a fresh process *)

InitThreading ==
    /\ op \in {JoinCall("input", bs, "UNIQUE", 1, FALSE, 0) : bs \in JoinInputs(BATCH_KIND)}
    /\ out = <<>>
    /\ err = "ok"
    /\ vector = AbundanceVector_class
    /\ batch = Batch_init(1)
    /\ added = <<>>
    /\ wmode = "none"
    /\ batcher = <<>>
    /\ pipe = <<>>

\* j = KJoinerThreading(mode); j.threads = threads; j.batch_size = 2;
\* j.doSort = doSort; j.join(batches, outpath)
JoinThreading(mode, threads, doSort) ==
    /\ op.name = "input"
    /\ JoinDone(KJoinerThreading_join(mode, vector, op.batches, threads, 2, doSort),
                mode, threads, doSort)

NextThreading ==
    \E mode \in JOIN_MODE, threads \in 1..MaxThreads, doSort \in BOOLEAN :
        JoinThreading(mode, threads, doSort)

SpecThreading == InitThreading /\ [][NextThreading]_vars

-----------------------------------------------------------------------------
(* claims on the crawler and the joiner *)

\* the (header, seq) of every record of the batches
RECURSIVE AllPairs(_)
AllPairs(batches) ==
    IF batches = <<>> THEN <<>>
    ELSE HeaderSeq(record_gen(Head(batches)).recs) \o AllPairs(Tail(batches))

\* the headers of the input records whose sequence is seq
HeadersOf(pairs, seq) == {j \in DOMAIN pairs : pairs[j].seq = seq}

\* the groups g are those of the records pairs: ascending, one per sequence,
\* each with the headers of all the records of its sequence
GroupsOf(g, pairs) ==
    /\ \A j \in 1..(Len(g) - 1) : StrLess(g[j].seq, g[j + 1].seq)
    /\ {g[j].seq : j \in DOMAIN g} = {pairs[j].seq : j \in DOMAIN pairs}
    /\ \A j \in DOMAIN g :
          BagOf(g[j].headers)
              = BagOf([i \in 1..Len(Pick(pairs, HeadersOf(pairs, g[j].seq), 1)) |->
                         Pick(pairs, HeadersOf(pairs, g[j].seq), 1)[i].h])

\* C15: given batches that are each sorted by seq (on disk, or by the crawler
\* when doSort is set), Crawler.do_batch emits groups with strictly
\* increasing seq, and each group holds exactly the headers of all the
\* records, across all batches, whose sequence is the group's: every input
\* record is in exactly one group.
C15_Groups ==
    (op.name = "do_batch" /\ (op.doSort \/ SortedBatches(op.batches))) =>
        /\ err = "ok"
        /\ GroupsOf(out.groups, AllPairs(op.batches))

\* C15 witness: three batches crawled without sorting, the sequence AC found
\* in each of them
C15_Witness ==
    /\ op.name = "do_batch" /\ ~op.doSort
    /\ Len(op.batches) = 3
    /\ out.groups = <<[headers |-> <<header(K_AC), header(K_AC2), header(K_AC3)>>,
                       seq |-> <<"A", "C">>],
                      [headers |-> <<header(K_CA)>>, seq |-> <<"C", "A">>]>>

\* the lines "seq\tcount\n" of a SEQ_COUNT output
CountLines(text) ==
    [j \in DOMAIN SplitLines(text, <<>>) |->
        [seq |-> Split(RStrip(SplitLines(text, <<>>)[j]), TAB, <<>>)[1],
         count |-> IntOf(Split(RStrip(SplitLines(text, <<>>)[j]), TAB, <<>>)[2])]]

RECURSIVE SumCounts(_)
SumCounts(lines) == IF lines = <<>> THEN 0 ELSE Head(lines).count + SumCounts(Tail(lines))

C16_Holds(lines, pairs) ==
    /\ \A i, j \in DOMAIN lines : lines[i].seq = lines[j].seq => i = j
    /\ {lines[j].seq : j \in DOMAIN lines} = {pairs[j].seq : j \in DOMAIN pairs}
    /\ SumCounts(lines) = Len(pairs)

\* C16: in SEQ_COUNT mode the join of sorted batches writes exactly one line
\* per distinct k-mer sequence present in the input batches, and the counts on
\* those lines sum to the total number of records in the input batches.
C16_SeqCount ==
    (op.name = "join" /\ op.mode = "SEQ_COUNT" /\ SortedBatches(op.batches)) =>
        /\ err = "ok"
        /\ C16_Holds(CountLines(out.text), AllPairs(op.batches))

\* C16 witness: four records in three batches counted on two lines
C16_Witness ==
    /\ op.name = "join" /\ op.mode = "SEQ_COUNT" /\ SortedBatches(op.batches)
    /\ Len(op.batches) = 3
    /\ out.text = <<"A", "C", TAB, "3", NL, "C", "A", TAB, "1", NL>>

\* the sequences counted once by the SEQ_COUNT join of the same batches
CountedOnce(lines) == {lines[j].seq : j \in {i \in DOMAIN lines : lines[i].count = 1}}

C17_Holds(records, lines, pairs) ==
    /\ {records[j][2] : j \in DOMAIN records} = CountedOnce(lines)
    /\ \A i, j \in DOMAIN records : records[i][2] = records[j][2] => i = j
    /\ \A j \in DOMAIN records :
          \E i \in DOMAIN pairs : pairs[i].seq = records[j][2] /\ pairs[i].h = records[j][1]

\* C17: on the same sorted input batches, the UNIQUE join outputs a record for
\* a sequence if and only if the SEQ_COUNT join reports count 1 for that
\* sequence, and the record written carries the single header of that
\* sequence.
C17_Unique ==
    (op.name = "join" /\ op.mode = "UNIQUE" /\ SortedBatches(op.batches)) =>
        /\ err = "ok"
        /\ C17_Holds(SimpleFastaParser(out.text),
                     CountLines(KJoiner_join("SEQ_COUNT", vector, op.batches).text),
                     AllPairs(op.batches))

\* C17 witness: AC occurs three times and is dropped, CA once and is written
C17_Witness ==
    /\ op.name = "join" /\ op.mode = "UNIQUE" /\ SortedBatches(op.batches)
    /\ Len(AllPairs(op.batches)) = 4
    /\ out.text = <<">">> \o header(K_CA) \o <<NL, "C", "A", NL>>

\* the cell of the vector v at the coordinates c (0 where v has no such cell)
Cell(v, c) ==
    IF <<c.ref, c.strand>> \in DOMAIN v.data
    THEN (IF c.start + 1 <= Len(v.data[<<c.ref, c.strand>>])
          THEN v.data[<<c.ref, c.strand>>][c.start + 1] ELSE 0)
    ELSE 0

C18_Holds(v, pairs) ==
    \A j \in DOMAIN pairs :
        Cell(v, from_str(pairs[j].h)) = Cardinality(HeadersOf(pairs, pairs[j].seq))

\* C18 (as claimed): in VEC_COUNT mode, after the join, for every k-mer record
\* with header (r, s, p) in the input batches, the cell p of the vector of
\* (r, s) equals the number of input records whose sequence equals that
\* k-mer's sequence, and the join raises no AbundanceConflict when all headers
\* in the input are distinct.
C18_VecCount ==
    (op.name = "join" /\ op.mode = "VEC_COUNT" /\ SortedBatches(op.batches)) =>
        /\ err = "ok"
        /\ C18_Holds(vector, AllPairs(op.batches))

\* the records of the group of pairs[j] whose reference differs from its own
MaskedCount(pairs, j) ==
    Cardinality({i \in HeadersOf(pairs, pairs[j].seq) :
                   from_str(pairs[i].h).ref # from_str(pairs[j].h).ref})

C19_Holds(before, after, pairs) ==
    \A j \in DOMAIN pairs :
        Cell(after, from_str(pairs[j].h))
            = IF MaskedCount(pairs, j) > 0 THEN MaskedCount(pairs, j)
              ELSE Cell(before, from_str(pairs[j].h))

\* C19 (as claimed): in VEC_COUNT_MASKED mode, for a group whose headers span
\* more than one reference, each header h gets at cell (ref(h), strand(h),
\* start(h)) the number of headers of the group whose reference differs from
\* ref(h); for a group with a single header or whose headers share one
\* reference, no cell is written.
C19_Masked ==
    [][(op'.name = "join" /\ op'.mode = "VEC_COUNT_MASKED" /\ SortedBatches(op'.batches)) =>
          /\ err' = "ok"
          /\ C19_Holds(vector, vector', AllPairs(op'.batches))]_vars

\* the lines of a text, as a multiset
LineBag(text) == BagOf(SplitLines(text, <<>>))

C20_Same(single) ==
    /\ err = single.err
    /\ LineBag(out.text) = LineBag(single.text)
    /\ out.written = post_join(op.mode, single).written

\* C20 (as claimed): on the same input batches, KJoinerThreading.join with
\* threads > 1 passes to the reducer the same groups (same seq, same multiset
\* of header strings) as the single-threaded join, and therefore produces the
\* same output up to line order.
C20_ThreadsAgree ==
    (op.name = "join" /\ op.threads > 1 /\ (op.doSort \/ SortedBatches(op.batches))) =>
        C20_Same(KJoiner_join(op.mode, AbundanceVector_class, op.batches))

-----------------------------------------------------------------------------
(* abundance.py: calls on one AbundanceVector *)

MaxRefSize == 2

VecRefs == {"r"}

VecStrands == {STRAND_PLUS, STRAND_MINUS}

VecCounts == {0, 1}

VecKs == {2, 3}

\* a call on the vector; first is the k of the vector's first add_count
\* (0 before it)
VecCall(name, ref, strand, size, pos, count, k, replace, first) ==
    [name |-> name, ref |-> ref, strand |-> strand, size |-> size, pos |-> pos,
     count |-> count, k |-> k, replace |-> replace, first |-> first]

\* v = AbundanceVector() in a fresh interpreter
InitVector ==
    /\ vector = AbundanceVector_new(AbundanceVector_class)
    /\ op = VecCall("new", "r", STRAND_PLUS, 0, 0, 0, 0, FALSE, 0)
    /\ err = "ok"
    /\ out = <<>>
    /\ batch = Batch_init(1)
    /\ added = <<>>
    /\ wmode = "none"
    /\ batcher = <<>>
    /\ pipe = <<>>

VecReturned(call, v, e) ==
    /\ op' = call
    /\ vector' = v
    /\ err' = e
    /\ UNCHANGED <<batch, added, wmode, out, batcher, pipe>>

\* v.add_ref(ref, strand, size)
AddRef(ref, strand, size) ==
    VecReturned(VecCall("add_ref", ref, strand, size, 0, 0, 0, FALSE, op.first),
                add_ref(vector, ref, strand, size), "ok")

AddCountDone(r, call) == VecReturned(call, r.v, r.err)

\* v.add_count(ref, strand, pos, count, k, replace)
AddCount(ref, strand, pos, count, k, replace) ==
    AddCountDone(add_count(vector, ref, strand, pos, count, k, replace),
                 VecCall("add_count", ref, strand, pos + 1, pos, count, k, replace,
                         IF op.first = 0 THEN k ELSE op.first))

NextVector ==
    \/ \E ref \in VecRefs, strand \in VecStrands, size \in 0..MaxRefSize :
          AddRef(ref, strand, size)
    \/ \E ref \in VecRefs, strand \in VecStrands, pos \in 0..(MaxRefSize - 1),
          count \in VecCounts, k \in VecKs, replace \in BOOLEAN :
          AddCount(ref, strand, pos, count, k, replace)

SpecVector == InitVector /\ [][NextVector]_vars

\* the (ref, strand) vector a call is about
VecKey(call) == <<call.ref, call.strand>>

\* the larger of two lengths
MaxOf(a, b) == IF a < b THEN b ELSE a

\* add_ref made the call's vector out of the one before
AddRefGrew(old, new, call) ==
    IF VecKey(call) \notin DOMAIN old.data
    THEN new.data[VecKey(call)] = zeros(call.size)
    ELSE /\ Len(new.data[VecKey(call)]) = MaxOf(Len(old.data[VecKey(call)]), call.size)
         /\ \A j \in 1..Len(old.data[VecKey(call)]) :
               new.data[VecKey(call)][j] = old.data[VecKey(call)][j]

\* no vector of old is missing or shorter in new
NeverShrinks(old, new) ==
    \A x \in DOMAIN old.data :
        x \in DOMAIN new.data /\ Len(new.data[x]) >= Len(old.data[x])

\* C21: add_ref creates a zero-filled vector of length size when the
\* (ref, strand) vector is absent, otherwise grows it to max(current length,
\* size) keeping every existing cell; over any sequence of add_ref and
\* add_count calls no vector's length ever decreases.
C21_AddRefGrows ==
    [][/\ op'.name = "add_ref" =>
             VecKey(op') \in DOMAIN vector'.data /\ AddRefGrew(vector, vector', op')
       /\ NeverShrinks(vector, vector')]_vars

\* add_ref has just grown a vector that holds a count
C21_Witness ==
    /\ op.name = "add_ref"
    /\ op.size = MaxRefSize
    /\ VecKey(op) \in DOMAIN vector.data
    /\ Len(vector.data[VecKey(op)]) = op.size
    /\ vector.data[VecKey(op)][1] # 0
    /\ vector.data[VecKey(op)][op.size] = 0

\* the cell a call is about, 0 where the vector does not reach it yet
CellOf(v, call) ==
    IF VecKey(call) \in DOMAIN v.data /\ call.pos + 1 <= Len(v.data[VecKey(call)])
    THEN v.data[VecKey(call)][call.pos + 1]
    ELSE 0

\* what add_count is to do with the cell: refuse and change nothing, or set it
AddCountSets(old, new, call, e) ==
    IF ~call.replace /\ CellOf(old, call) # 0
    THEN e = "AbundanceConflict" /\ new.data = old.data
    ELSE e = "ok" /\ CellOf(new, call) = call.count

\* C22: add_count with replace=false on a non-zero cell fails
\* (AbundanceConflict) and leaves every cell and every vector length
\* unchanged; with replace=true, or when the cell is zero, it sets the cell to
\* count. Stated for the calls made with the k of the vector's first add_count.
C22_Conflict ==
    [][(op'.name = "add_count" /\ op'.k = op'.first) =>
           AddCountSets(vector, vector', op', err')]_vars

\* C23: within one vector every add_count whose k differs from the k of the
\* first add_count fails (InconsistentK), and every add_count whose k equals
\* it passes the length check.
C23_SingleK ==
    op.name = "add_count" => ((op.k # op.first) <=> (err = "InconsistentK"))

-----------------------------------------------------------------------------
(* seq.py: SequenceCoords to text and back *)

MaxRefLen == 2

RefChars == {"r", ":", "7", "-", NL}

CoordValues == {0, 9, 10, 123}

\* the reference names of length n
RECURSIVE RefsOfLen(_)
RefsOfLen(n) ==
    IF n = 0 THEN {<<>>}
    ELSE {Append(r, c) : r \in RefsOfLen(n - 1), c \in RefChars}

CoordsCall(name, src, ref, start, end, strand, text) ==
    [name |-> name, src |-> src, ref |-> ref, start |-> start, end |-> end,
     strand |-> strand, text |-> text]

\* c = SequenceCoords(ref, start, end, strand)
InitCoords ==
    /\ op \in {CoordsCall("SequenceCoords", "str", ref, start, end, strand, <<>>) :
                  ref \in UNION {RefsOfLen(n) : n \in 0..MaxRefLen},
                  start \in CoordValues, end \in CoordValues,
                  strand \in {STRAND_PLUS, STRAND_MINUS}}
    /\ out = NoCoords
    /\ err = "ok"
    /\ vector = AbundanceVector_class
    /\ batch = Batch_init(1)
    /\ added = <<>>
    /\ wmode = "none"
    /\ batcher = <<>>
    /\ pipe = <<>>

CoordsReturned(call, result, e) ==
    /\ op' = call
    /\ out' = result
    /\ err' = e
    /\ UNCHANGED <<batch, added, wmode, batcher, pipe, vector>>

\* s = str(c)
Str ==
    /\ op.name = "SequenceCoords"
    /\ CoordsReturned([op EXCEPT !.name = "str",
                                 !.text = CoordsRepr(op.ref, op.start, op.end, op.strand)],
                      out, err)

\* s with the character at position i left out
DropAt(s, i) == SubSeq(s, 1, i - 1) \o SubSeq(s, i + 1, Len(s))

\* a text that is not the str() of the object: one character lost
Damage(i) ==
    /\ op.name = "str"
    /\ op.src = "str"
    /\ i \in 1..Len(op.text)
    /\ CoordsReturned([op EXCEPT !.src = "text", !.text = DropAt(op.text, i)], out, err)

\* a text that is not the str() of the object: one character more at the end
Extend(c) ==
    /\ op.name = "str"
    /\ op.src = "str"
    /\ CoordsReturned([op EXCEPT !.src = "text", !.text = Append(op.text, c)], out, err)

FromStrDone(r) ==
    CoordsReturned([op EXCEPT !.name = "from_str"], r,
                   IF r.ok THEN "ok" ELSE "MalformedHeader")

\* SequenceCoords.from_str(s)
FromStr ==
    /\ op.name = "str"
    /\ FromStrDone(from_str(op.text))

NextCoords ==
    \/ Str
    \/ \E i \in 1..(MaxRefLen + 10) : Damage(i)
    \/ \E c \in RefChars \cup {STRAND_PLUS} : Extend(c)
    \/ FromStr

SpecCoords == InitCoords /\ [][NextCoords]_vars

\* s[1..n] has the form ref:start-end:strand with the colon at col and the dash
\* at dash
HasForm(s, n, col, dash) ==
    /\ 2 <= col /\ col + 1 < dash /\ dash + 1 < n - 1
    /\ s[col] = ":" /\ s[dash] = "-" /\ s[n - 1] = ":"
    /\ s[n] \in {STRAND_PLUS, STRAND_MINUS}
    /\ \A j \in 1..(col - 1) : s[j] # NL
    /\ \A j \in (col + 1)..(dash - 1) : IsDigit(s[j])
    /\ \A j \in (dash + 1)..(n - 2) : IsDigit(s[j])

\* s matches the pattern ref:start-end:strand
MatchesPattern(s) == \E col \in 1..Len(s), dash \in 1..Len(s) : HasForm(s, EndAnchor(s), col, dash)

\* the parsed coordinates are those of the object of the call
SameCoords(r, call) ==
    /\ r.ok
    /\ r.ref = call.ref /\ r.start = call.start /\ r.end = call.end
    /\ r.strand = call.strand

\* C24: for every SequenceCoords c with start >= 0, end >= 0 and strand in
\* {+, -}, from_str(str(c)) equals c; a string that does not match the pattern
\* ref:start-end:strand is rejected with an error (MalformedHeader).
C24_RoundTrip ==
    op.name = "from_str" =>
        /\ op.src = "str" => SameCoords(out, op)
        /\ ~MatchesPattern(op.text) => (~out.ok /\ err = "MalformedHeader")

\* the part of C24 that the code keeps: the round trip for a reference name
\* that is not empty and holds no line break, and the rejection of every text
\* that does not match
C24_NamedRoundTrip ==
    op.name = "from_str" =>
        /\ (op.src = "str" /\ op.ref # <<>> /\ \A j \in 1..Len(op.ref) : op.ref[j] # NL)
              => SameCoords(out, op)
        /\ MatchesPattern(op.text) <=> out.ok
        /\ out.ok <=> err = "ok"

-----------------------------------------------------------------------------
(* parsers.py: SmartFastaParser *)

\* the line of s that starts after offset pos, with its terminator; empty at
\* the end of the file
RECURSIVE LineFrom(_, _)
LineFrom(s, pos) ==
    IF pos >= Len(s) THEN <<>>
    ELSE IF s[pos + 1] = NL THEN <<NL>>
    ELSE <<s[pos + 1]>> \o LineFrom(s, pos + 1)

\* line.startswith(">")
IsHeaderLine(line) == line # <<>> /\ line[1] = ">"

\* SmartFastaParser(path) for an existing file: the handle is opened and closed;
\* line and header_found are the locals of parse()
SmartFastaParser_init(content) ==
    [content |-> content, open |-> FALSE, pos |-> 0, last |-> 0,
     line |-> <<>>, header_found |-> FALSE, pc |-> "new"]

\* SmartFastaParser.__reopen
reopen(p) == IF p.open THEN p ELSE [p EXCEPT !.open = TRUE, !.pos = p.last]

\* SmartFastaParser.__readline: p after the read, the line read in p.line
readline(p) ==
    [p EXCEPT !.line = LineFrom(p.content, p.pos),
              !.pos = p.pos + Len(LineFrom(p.content, p.pos))]

\* a skip that takes no line but a header line
skip_line_HeaderOnly(q) ==
    IF q.pos = q.last THEN [p |-> [q EXCEPT !.line = <<>>], parsable |-> FALSE]
    ELSE [p |-> [q EXCEPT !.last = q.pos], parsable |-> IsHeaderLine(q.line)]

\* SmartFastaParser.__skip_blank_and_comments
RECURSIVE skip_blank_and_comments(_)
skip_line(q) ==
    IF q.pos = q.last THEN [p |-> [q EXCEPT !.line = <<>>], parsable |-> FALSE]
    ELSE IF IsHeaderLine(q.line) THEN [p |-> [q EXCEPT !.last = q.pos], parsable |-> TRUE]
    ELSE skip_blank_and_comments([q EXCEPT !.last = q.pos])

skip_blank_and_comments(p) == skip_line(readline(p))

\* SmartFastaParser.__parse_sequence: the parser after the reads and the joined
\* lines
RECURSIVE parse_sequence(_, _)
parse_sequence_line(q, lines, line) ==
    IF line = <<>> \/ IsHeaderLine(line) THEN [p |-> q, seq |-> lines]
    ELSE parse_sequence([q EXCEPT !.last = q.pos], lines \o RStrip(line))

parse_sequence(p, lines) ==
    parse_sequence_line([readline(p) EXCEPT !.line = p.line], lines, readline(p).line)

\* the end of an iteration of parse(): close the handle and yield
parse_yield(r, title) ==
    [p |-> [r.p EXCEPT !.open = FALSE, !.header_found = FALSE, !.pc = "suspended"],
     err |-> "ok", rec |-> <<title, DropBlanks(r.seq)>>]

\* an iteration of the loop of parse() once line is set
parse_line(q) ==
    IF q.line = <<>> THEN [p |-> [q EXCEPT !.pc = "done"], err |-> "ok", rec |-> <<>>]
    ELSE IF ~IsHeaderLine(q.line)
    THEN [p |-> [q EXCEPT !.pc = "raised"], err |-> "ValueError", rec |-> <<>>]
    ELSE parse_yield(parse_sequence(q, <<>>), RStrip(Tail(q.line)))

\* an iteration of the loop of parse()
parse_iteration(p) ==
    parse_line(IF p.header_found THEN readline(reopen(p)) ELSE reopen(p))

\* parse() up to its loop
parse_skipped(s) ==
    IF ~s.parsable
    THEN [p |-> [s.p EXCEPT !.pc = "raised"], err |-> "AssertionError", rec |-> <<>>]
    ELSE parse_iteration([s.p EXCEPT !.header_found = TRUE])

\* SmartFastaParser.parse: the first next() on the generator
parse_first(p) == parse_skipped(skip_blank_and_comments(reopen(p)))

\* SmartFastaParser.parse: a later next() on the generator
parse_next(p) == parse_iteration(p)

MaxLines == 3

MaxYields == 2

FastaLines == {<<">", "a", NL>>, <<">", "b", NL>>, <<"A", "C", NL>>, <<"G", NL>>, <<NL>>}

\* the texts of n lines
RECURSIVE TextsOfLines(_)
TextsOfLines(n) ==
    IF n = 0 THEN {<<>>}
    ELSE {t \o l : t \in TextsOfLines(n - 1), l \in FastaLines}

FastaTexts == UNION {TextsOfLines(n) : n \in 0..MaxLines}

\* a FASTA file on disk; nothing is parsed yet
InitParser ==
    /\ pipe \in {SmartFastaParser_init(content) : content \in FastaTexts}
    /\ op = [name |-> "file"]
    /\ out = <<>>
    /\ err = "ok"
    /\ vector = AbundanceVector_class
    /\ batch = Batch_init(1)
    /\ added = <<>>
    /\ wmode = "none"
    /\ batcher = <<>>

ParserStep(name, r) ==
    /\ pipe' = r.p
    /\ op' = [name |-> name]
    /\ err' = r.err
    /\ out' = IF r.rec = <<>> THEN out ELSE Append(out, r.rec)
    /\ UNCHANGED <<batch, added, wmode, batcher, vector>>

\* g = SmartFastaParser(path).parse(); next(g)
ParseFirst ==
    /\ pipe.pc = "new"
    /\ ParserStep("parse", parse_first(pipe))

\* next(g) on the suspended generator
ParseNext ==
    /\ pipe.pc = "suspended"
    /\ Len(out) < MaxYields
    /\ ParserStep("parse", parse_next(pipe))

\* SmartFastaParser(FH) on an open handle, as FastaBatcher and
\* Batch._record_gen_from_handle call it: FH.exists() does not exist
FromHandle ==
    /\ pipe.pc = "new"
    /\ ParserStep("handle", [p |-> [pipe EXCEPT !.pc = "raised"],
                             err |-> "AttributeError", rec |-> <<>>])

NextParser == ParseFirst \/ ParseNext \/ FromHandle

SpecParser == InitParser /\ [][NextParser]_vars

\* s is a prefix of t
IsPrefix(s, t) == Len(s) <= Len(t) /\ s = SubSeq(t, 1, Len(s))

\* the file starts with a header line
WellFormed(content) == content # <<>> /\ content[1] = ">"

\* C25: for any well-formed FASTA file the bounded-handle parser yields exactly
\* the (header, sequence) records of the file in file order, each once, the
\* same as the eager parser, although it closes the handle after each record
\* and resumes by re-opening and seeking to the saved offset.
C25_SameAsEager ==
    (op.name = "parse" /\ WellFormed(pipe.content)) =>
        /\ err = "ok"
        /\ IsPrefix(out, SimpleFastaParser(pipe.content))
        /\ pipe.pc = "done" => out = SimpleFastaParser(pipe.content)

\* the handle is closed whenever the generator is suspended on a record
C26_ClosedWhenSuspended == pipe.pc = "suspended" => ~pipe.open

\* the text from its first header line on
RECURSIVE FromFirstHeader(_)
FromFirstHeader(content) ==
    IF content = <<>> \/ content[1] = ">" THEN content
    ELSE FromFirstHeader(SubSeq(content, Len(LineFrom(content, 0)) + 1, Len(content)))

\* where the generator stands after the result r of a next() and n more
RECURSIVE parse_more(_, _, _)
parse_more(r, recs, n) ==
    IF r.p.pc # "suspended" \/ n = 0
    THEN [pc |-> r.p.pc, err |-> r.err,
          recs |-> IF r.rec = <<>> THEN recs ELSE Append(recs, r.rec)]
    ELSE parse_more(parse_next(r.p), Append(recs, r.rec), n - 1)

\* where the generator of SmartFastaParser(path).parse() stands after n calls
\* of next(), or at its end if it comes earlier
parse_calls(content, n) ==
    parse_more(parse_first(SmartFastaParser_init(content)), <<>>, n - 1)

\* the calls of next() made on the generator
Calls == IF pipe.pc = "suspended" THEN Len(out) ELSE Len(out) + 1

\* the first non-blank line of the file is not a header line
JunkFirst(content) ==
    \E j \in 1..Len(content) :
        /\ content[j] \notin Whitespace \cup {">"}
        /\ \A i \in 1..(j - 1) : content[i] \in Whitespace

BlankText(content) == \A j \in 1..Len(content) : content[j] \in Whitespace

\* C28: for an empty FASTA input (no record after skipping blank lines) the
\* pipeline terminates without error and produces no output record.
C28_EmptyInput ==
    (BlankText(pipe.content) /\ pipe.pc # "new") =>
        (pipe.pc = "done" /\ err = "ok" /\ out = <<>>)

-----------------------------------------------------------------------------
(* file handles of the batches during a merge *)

\* Batch.record_gen and BatchAppendable.record_gen read the temporary file
ReadsFile(b) ==
    b.file.exists /\ b.i # 0 /\ (IF b.cls = "Batch" THEN b.written ELSE TRUE)

\* the handles the record generator of b keeps open while it is suspended on a
\* record: Batch._record_gen_from_file opens TH and closes it after the last
\* record
gen_handles(b) == IF ReadsFile(b) THEN 1 ELSE 0

\* the handles open at once when heapq.merge has taken the first record of
\* each generator
merge_handles(batches) ==
    Cardinality({j \in DOMAIN batches : gen_handles(batches[j]) = 1})

\* C26: whenever the bounded-handle parser is suspended after yielding a record
\* its file handle is closed, so that during a k-way merge over N batches read
\* with the bounded-handle parser at most one batch file handle is open at any
\* instant. Stated for the merges of the threaded join, which ask for the
\* bounded-handle parser: each one reads its batches, with at most one handle
\* open at once.
C26_OneHandle ==
    (op.name = "join" /\ op.threads > 1) =>
        /\ FirstErr(SeqCountBatcher_do(op.batches, 2, op.doSort)) # "AttributeError"
        /\ FirstErr(SeqCountBatcher_do(op.batches, 2, op.doSort)) = "ok" =>
              merge_handles([j \in DOMAIN SeqCountBatcher_do(op.batches, 2, op.doSort) |->
                                SeqCountBatcher_do(op.batches, 2, op.doSort)[j].b]) <= 1

-----------------------------------------------------------------------------
(* batch.py: a Batch that is full and written *)

\* the calls C29 is about: add, add_all, write without force, unwrite
KeepsFullWritten(call) ==
    \/ call.name \in {"add", "add_all", "unwrite"}
    \/ call.name = "write" /\ ~call.force

\* C29: for a Batch that is both full and written, add fails, write without
\* force does nothing and unwrite does nothing: current_size, the written flag
\* and the content of the temp file stay unchanged until reset (or a forced
\* write) is called.
C29_FullWrittenFrame ==
    [][(batch.cls = "Batch" /\ is_full(batch) /\ batch.written /\ KeepsFullWritten(op')) =>
           /\ batch'.i = batch.i
           /\ batch'.written = batch.written
           /\ batch'.file = batch.file
           /\ batch' = batch
           /\ op'.name \in {"add", "add_all"} => err' # "ok"
           /\ op'.name \in {"write", "unwrite"} => err' = "ok"]_vars

\* add has just failed on a full, written Batch whose file holds records
C29_Witness ==
    /\ op.name = "add"
    /\ err # "ok"
    /\ batch.cls = "Batch"
    /\ is_full(batch)
    /\ batch.written
    /\ batch.file.exists
    /\ batch.file.content # <<>>

-----------------------------------------------------------------------------
(* batcher.py: the collection after n add_record calls *)

\* ceil(n / c)
CeilDiv(n, c) == (n + c - 1) \div c

\* the collection of B holds the records recs as C30 says
HoldsInOrder(B, recs) ==
    /\ RecordsOf(B.collection) = recs
    /\ \A i \in DOMAIN B.collection : B.collection[i].i <= B.size
    /\ Len(B.collection) = MaxOf(1, CeilDiv(Len(recs), B.size))

\* C30: after n add_record calls on a fresh batcher of capacity c, reading the
\* batches in collection order yields the n records in add order, each exactly
\* once, no batch holds more than c records, and the collection has
\* max(1, ceil(n/c)) batches. By induction on n: it holds of the fresh batcher,
\* and an accepted add_record keeps it.
C30_BatchesInOrder ==
    [][((op.name = "init" \/ HoldsInOrder(batcher, added))
            /\ op'.name = "add_record" /\ err' = "ok")
        => (HoldsInOrder(batcher, added) /\ HoldsInOrder(batcher', added'))]_vars

\* an add_record has filled the last of several batches
C30_Witness ==
    /\ op.name = "add_record"
    /\ err = "ok"
    /\ HoldsInOrder(batcher, added)
    /\ Len(batcher.collection) >= 2
    /\ is_full(LastOf(batcher.collection))
    /\ Len(added) = 2 * batcher.size

-----------------------------------------------------------------------------
(* SpecFeed: a batcher that receives records, is written out with write_all
   and is fed the batches of another collection *)

\* largest number of records added to the recipient before it is fed
MaxFed == 3

\* a batch of the given capacity holding recs in memory
DonorOf(size, recs) == add_all(Batch_init(size), recs).b

\* the same batch once written, without sorting
WrittenDonorOf(size, recs) == write(DonorOf(size, recs), FALSE, FALSE).b

\* a batch constructed for another record type than KMer
SequenceBatch == [type |-> "Sequence"] @@ Batch_init(2)

\* the collections handed to feed_collection
DonorLists ==
    {<<>>,
     <<DonorOf(2, <<K_CA, K_AC>>)>>,
     <<WrittenDonorOf(1, <<K_AC>>), DonorOf(3, <<K_CA, K_AC2>>)>>,
     <<Batch_init(2), WrittenDonorOf(2, <<K_CA, K_AC2>>)>>,
     <<SequenceBatch>>,
     <<DonorOf(2, <<K_CA>>), SequenceBatch>>}

InitFeed ==
    /\ batcher \in {BatcherBase_init(n) : n \in 1..MaxSize}
    /\ pipe \in DonorLists
    /\ added = <<>>
    /\ op = Call("init", <<>>, FALSE, FALSE)
    /\ err = "ok"
    /\ batch = Batch_init(1)
    /\ wmode = "none"
    /\ out = <<>>
    /\ vector = <<>>

\* add_record on the recipient
FeedAdd(r) ==
    /\ wmode = "none"
    /\ TotalSize(batcher.collection) < MaxFed
    /\ AddRecordDone(add_record(batcher, r), r)

\* write_all(doSort=doSort) on the recipient
WriteAll(doSort) ==
    /\ wmode = "none"
    /\ BatcherReturned(write_all(batcher, doSort),
                       Call("write_all", <<>>, doSort, FALSE), added)

\* the outcome f of feed_collection(pipe, mode): the donor list and the
\* batches popped from it are the caller's objects, which the recipient
\* shares from here on
FeedDone(f, mode) ==
    /\ batcher' = f.b
    /\ err' = f.err
    /\ pipe' = f.donors
    /\ out' = f.popped
    /\ wmode' = mode
    /\ op' = Call("feed_collection", <<>>, FALSE, FALSE)
    /\ UNCHANGED <<batch, added, vector>>

Feed(mode) ==
    /\ wmode = "none"
    /\ FeedDone(feed_collection(batcher, pipe, mode), mode)

NextFeed ==
    \/ \E r \in KMerPool : FeedAdd(r)
    \/ \E doSort \in BOOLEAN : WriteAll(doSort)
    \/ \E mode \in FEED_MODE : Feed(mode)

SpecFeed == InitFeed /\ [][NextFeed]_vars

\* the records in the temporary file of a batch
FileRecs(b) == record_gen_from_file(b).recs

\* batch j of the collection is written by the step for the first time
NewlyWritten(j) ==
    /\ batcher.collection[j].i # 0
    /\ ~batcher.collection[j].written

\* the step is a write_all that returned
WriteAllStep == op'.name = "write_all" /\ err' = "ok"

\* C31: after write_all(do_sort) every batch that holds records is written and
\* the empty batches are untouched; with do_sort = false each newly written
\* file holds the records of its batch in the order they were added, with
\* do_sort = true the file of every non-empty batch is ordered on seq.
C31_WriteAll ==
    [][WriteAllStep =>
         \A j \in DOMAIN batcher.collection :
            /\ batcher.collection[j].i # 0 => batcher'.collection[j].written
            /\ batcher.collection[j].i = 0
                  => batcher'.collection[j] = batcher.collection[j]
            /\ (~op'.doSort /\ NewlyWritten(j))
                  => FileRecs(batcher'.collection[j]) = NotNone(batcher.collection[j].records)
            /\ (op'.doSort /\ batcher.collection[j].i # 0)
                  => IsSorted(FileRecs(batcher'.collection[j]))]_vars

\* the step is a feed_collection in the given mode that returned
FedStep(mode) == op'.name = "feed_collection" /\ wmode' = mode /\ err' = "ok"

\* a batch as reset leaves it: no record, not written, no temporary file
IsReset(b) == b.i = 0 /\ b.remaining = b.size /\ ~b.written /\ ~b.file.exists

\* no batch of the collection holds more records than its capacity
WithinCapacity(c) ==
    \A j \in DOMAIN c : c[j].i <= c[j].size /\ Len(record_gen(c[j]).recs) <= c[j].size

HasOtherType(c) == \E j \in DOMAIN c : BatchType(c[j]) # "KMer"

\* C33: APPEND makes the collection the previous batches followed by the donor
\* batches in donor order, REPLACE makes it exactly the donor list; in both
\* modes no batch changes (content, written flag, file); when a donor batch
\* has a record type other than the batcher's, the call fails and the
\* collection is unchanged.
C33_AppendReplace ==
    [][op'.name = "feed_collection" =>
         /\ HasOtherType(pipe)
               => err' = "AssertionError" /\ batcher' = batcher /\ pipe' = pipe
         /\ (~HasOtherType(pipe) /\ wmode' = "APPEND")
               => /\ err' = "ok"
                  /\ batcher'.collection = batcher.collection \o pipe
                  /\ pipe' = pipe
         /\ (~HasOtherType(pipe) /\ wmode' = "REPLACE")
               => /\ err' = "ok"
                  /\ batcher'.collection = pipe
                  /\ pipe' = pipe]_vars

\* C33 witness: an APPEND put two donors, one written and one in memory,
\* behind the batches of a recipient that holds a written batch and records
C33_Witness ==
    /\ op.name = "feed_collection" /\ wmode = "APPEND" /\ err = "ok"
    /\ Len(pipe) = 2
    /\ Len(batcher.collection) = 4
    /\ batcher.collection[1].written /\ batcher.collection[1].i # 0
    /\ batcher.collection[3].written /\ ~batcher.collection[4].written
    /\ batcher.collection[4].i = 2

-----------------------------------------------------------------------------
(* abundance.py: AbundanceVectorLocal, and the two stores side by side *)

\* the class attributes _dataList and _ks as the module is imported; files
\* are the HDF5 files of the instance's temporary directory
AbundanceVectorLocal_class == [files |-> <<>>, dataList |-> {}, ks |-> {}]

\* AbundanceVectorLocal(): __init__ makes a new temporary directory; _dataList
\* and _ks stay the attributes of the class
AbundanceVectorLocal_new(class) == [class EXCEPT !.files = <<>>]

\* AbundanceVectorLocal.refname: "%s___%s.hdf5" % (ref, strand)
refname(ref, strand) == <<ref, "___", strand, ".hdf5">>

\* AbundanceVectorLocal.has_ref
has_ref(l, ref, strand) ==
    refname(ref, strand) \in DOMAIN l.files /\ refname(ref, strand) \in l.dataList

\* AbundanceVectorLocal.mk_ref_file: a dataset of size + 1 zeros
mk_ref_file(l, ref, strand, size) ==
    IF has_ref(l, ref, strand) THEN l
    ELSE [l EXCEPT !.dataList = @ \cup {refname(ref, strand)},
                   !.files = [x \in DOMAIN l.files \cup {refname(ref, strand)} |->
                                 IF x = refname(ref, strand) THEN zeros(size + 1)
                                 ELSE l.files[x]]]

\* AbundanceVectorLocal.add_ref
Local_add_ref(l, ref, strand, size) ==
    IF ~has_ref(l, ref, strand) THEN mk_ref_file(l, ref, strand, size)
    ELSE IF size + 1 > Len(l.files[refname(ref, strand)])
    THEN [l EXCEPT !.files[refname(ref, strand)] =
                      [j \in 1..(size + 1) |-> IF j <= Len(@) THEN @[j] ELSE 0]]
    ELSE l

\* AbundanceVectorLocal.add_count once the length is checked and the dataset
\* is long enough
Local_add_count_checked(l, ref, strand, pos, count, replace) ==
    IF ~replace /\ l.files[refname(ref, strand)][pos + 1] # 0
    THEN [v |-> l, err |-> "AbundanceConflict"]
    ELSE [v |-> [l EXCEPT !.files[refname(ref, strand)][pos + 1] = count], err |-> "ok"]

\* AbundanceVectorBase.check_length, then the rest of add_count when it passes
Local_add_count_lengths(l, ref, strand, pos, count, replace) ==
    IF Cardinality(l.ks) # 1 THEN [v |-> l, err |-> "InconsistentK"]
    ELSE Local_add_count_checked(Local_add_ref(l, ref, strand, pos), ref, strand,
                                 pos, count, replace)

\* AbundanceVectorLocal.add_count
Local_add_count(l, ref, strand, pos, count, k, replace) ==
    Local_add_count_lengths([l EXCEPT !.ks = @ \cup {k}], ref, strand, pos, count, replace)

\* one AbundanceVector (vector, err) and one AbundanceVectorLocal (pipe, out)
\* made in a fresh interpreter and given the same calls
InitLocal ==
    /\ vector = AbundanceVector_new(AbundanceVector_class)
    /\ pipe = AbundanceVectorLocal_new(AbundanceVectorLocal_class)
    /\ op = VecCall("new", "r", STRAND_PLUS, 0, 0, 0, 0, FALSE, 0)
    /\ err = "ok"
    /\ out = "ok"
    /\ batch = Batch_init(1)
    /\ added = <<>>
    /\ wmode = "none"
    /\ batcher = <<>>

BothReturned(call, v, e, l, le) ==
    /\ op' = call
    /\ vector' = v
    /\ err' = e
    /\ pipe' = l
    /\ out' = le
    /\ UNCHANGED <<batch, added, wmode, batcher>>

\* add_ref(ref, strand, size) on both
BothAddRef(ref, strand, size) ==
    BothReturned(VecCall("add_ref", ref, strand, size, 0, 0, 0, FALSE, op.first),
                 add_ref(vector, ref, strand, size), "ok",
                 Local_add_ref(pipe, ref, strand, size), "ok")

BothAddCountDone(r, lr, call) == BothReturned(call, r.v, r.err, lr.v, lr.err)

\* add_count(ref, strand, pos, count, k, replace) on both
BothAddCount(ref, strand, pos, count, k, replace) ==
    BothAddCountDone(add_count(vector, ref, strand, pos, count, k, replace),
                     Local_add_count(pipe, ref, strand, pos, count, k, replace),
                     VecCall("add_count", ref, strand, pos + 1, pos, count, k, replace,
                             IF op.first = 0 THEN k ELSE op.first))

NextLocal ==
    \/ \E ref \in VecRefs, strand \in VecStrands, size \in 0..MaxRefSize :
          BothAddRef(ref, strand, size)
    \/ \E ref \in VecRefs, strand \in VecStrands, pos \in 0..(MaxRefSize - 1),
          count \in VecCounts, k \in VecKs, replace \in BOOLEAN :
          BothAddCount(ref, strand, pos, count, k, replace)

SpecLocal == InitLocal /\ [][NextLocal]_vars

\* the (ref, strand) pairs the local store holds a file for
LocalKeys(l) == {key \in VecRefs \X VecStrands : has_ref(l, key[1], key[2])}

\* the two stores hold the same keys
SameKeys == DOMAIN vector.data = LocalKeys(pipe)

\* the two stores hold vectors of the same lengths with the same cells
SameVectors ==
    \A key \in DOMAIN vector.data \cap LocalKeys(pipe) :
        vector.data[key] = pipe.files[refname(key[1], key[2])]

\* C34: after any sequence of add_ref and add_count calls given to both, the
\* AbundanceVectorLocal and the AbundanceVector hold the same keys, vectors of
\* the same lengths with the same cell values, and each call was accepted or
\* rejected by both alike.
C34_SameStores == SameKeys /\ SameVectors /\ err = out

-----------------------------------------------------------------------------
(* SpecInstances: the calls of SpecLocal, and new instances of both classes
   made in the same interpreter, as _pre_join makes one for every join *)

\* AbundanceVector() and AbundanceVectorLocal(): the names vector and pipe are
\* bound to the new instances
NewVectors ==
    BothReturned(VecCall("new", "r", STRAND_PLUS, 0, 0, 0, 0, FALSE, op.first),
                 AbundanceVector_new(vector), "ok",
                 AbundanceVectorLocal_new(pipe), "ok")

NextInstances ==
    \/ NextLocal
    \/ NewVectors

SpecInstances == InitLocal /\ [][NextInstances]_vars

\* C40: vector instances are independent: a new instance, of either class,
\* holds no vector and no recorded k, whatever was stored through the
\* instances made before it.
C40_FreshInstance ==
    op.name = "new" =>
        /\ vector.data = <<>> /\ vector.ks = {}
        /\ pipe.files = <<>> /\ pipe.dataList = {} /\ pipe.ks = {}

-----------------------------------------------------------------------------
(* scripts/kmer_count.py: prep_joiner and the descriptor limits *)

\* resource.RLIM_INFINITY as CPython reports an unlimited resource on Linux
RLIM_INFINITY == -1

\* largest number of input batches
MaxInputBatches == 6

\* the hard limits the process may run under, unlimited included
HardLimits == {RLIM_INFINITY, 1, 2, 3, 4, 1048576}

\* the soft limits
SoftLimits == {RLIM_INFINITY, 1, 2, 3, 1024}

\* the order of limits as the system sees them: unlimited is the greatest
LimitLeq(a, b) == b = RLIM_INFINITY \/ (a # RLIM_INFINITY /\ a <= b)

\* KJoinerThreading as constructed: _threads = 1, __batch_size = 10
KJoinerThreading_init == [threads |-> 1, batch_size |-> 10]

\* KJoinerThreading.batch_size setter
set_batch_size(j, batch_size) ==
    IF batch_size < 2 THEN [j |-> j, err |-> "AssertionError"]
    ELSE [j |-> [j EXCEPT !.batch_size = batch_size], err |-> "ok"]

\* resource.setrlimit(RLIMIT_NOFILE, (soft, hard)): refused when soft exceeds
\* hard
setrlimit(lim, soft, hard) ==
    IF ~LimitLeq(soft, hard) THEN [lim |-> lim, err |-> "ValueError"]
    ELSE [lim |-> <<soft, hard>>, err |-> "ok"]

\* the end of prep_joiner: the clamped batch_size was assigned (s), then
\* setrlimit(max(rlim_min, batch_size), rlim_max)
prep_joiner_limits(s, lim) ==
    IF s.err # "ok" THEN [j |-> s.j, lim |-> lim, err |-> s.err]
    ELSE [j |-> s.j,
          lim |-> setrlimit(lim, MaxOf(lim[1], s.j.batch_size), lim[2]).lim,
          err |-> setrlimit(lim, MaxOf(lim[1], s.j.batch_size), lim[2]).err]

\* prep_joiner after joiner.batch_size = max(2, n_batches // threads) (s):
\* joiner.batch_size = min(joiner.batch_size, rlim_max), on Python integers
prep_joiner_clamped(s, lim) ==
    IF s.err # "ok" THEN [j |-> s.j, lim |-> lim, err |-> s.err]
    ELSE prep_joiner_limits(set_batch_size(s.j, Min(s.j.batch_size, lim[2])), lim)

\* prep_joiner(joiner, n_batches, threads) under the limits lim = (soft, hard)
prep_joiner(joiner, n_batches, threads, lim) ==
    prep_joiner_clamped(
        set_batch_size([joiner EXCEPT !.threads = ClampThreads(threads)],
                       MaxOf(2, n_batches \div threads)),
        lim)

PrepCall(name, n_batches, threads, lim) ==
    [name |-> name, n_batches |-> n_batches, threads |-> threads, lim |-> lim]

\* a process with its descriptor limits (out), a new joiner (batcher) and the
\* arguments prep_joiner is about to receive (op)
InitLimits ==
    /\ batcher = KJoinerThreading_init
    /\ out \in {lim \in SoftLimits \X HardLimits : LimitLeq(lim[1], lim[2])}
    /\ \E n \in 0..MaxInputBatches, t \in 1..(MaxThreads + 1) :
          op = PrepCall("start", n, t, out)
    /\ err = "ok"
    /\ batch = Batch_init(1)
    /\ added = <<>>
    /\ wmode = "none"
    /\ pipe = <<>>
    /\ vector = <<>>

PrepJoinerDone(r) ==
    /\ batcher' = r.j
    /\ out' = r.lim
    /\ err' = r.err
    /\ op' = [op EXCEPT !.name = "prep_joiner"]
    /\ UNCHANGED <<batch, added, wmode, pipe, vector>>

PrepJoiner ==
    /\ op.name = "start"
    /\ PrepJoinerDone(prep_joiner(batcher, op.n_batches, op.threads, out))

NextLimits == PrepJoiner

SpecLimits == InitLimits /\ [][NextLimits]_vars

\* x clamped above by the limit, which may be unlimited
ClampedBy(x, limit) == IF LimitLeq(x, limit) THEN x ELSE limit

\* C35: prep_joiner computes batch_size = max(2, n_batches / threads) clamped
\* above by the hard descriptor limit and leaves the soft limit at least
\* batch_size and at most the hard limit, for every n_batches >= 0,
\* threads >= 1 and every hard limit, unlimited included.
C35_BatchSize ==
    op.name = "prep_joiner" =>
        /\ err = "ok"
        /\ batcher.batch_size
              = ClampedBy(MaxOf(2, op.n_batches \div op.threads), op.lim[2])
        /\ LimitLeq(batcher.batch_size, out[1])
        /\ LimitLeq(out[1], out[2])
        /\ out[2] = op.lim[2]

-----------------------------------------------------------------------------
(* batcher.py: load_batches and BatcherThreading.from_files *)

\* a path that is no directory
NoDir == [isdir |-> FALSE, files |-> <<>>]

\* a directory with its files, in os.listdir order
DirOf(files) == [isdir |-> TRUE, files |-> files]

\* Batch.from_file for each file, up to the first failure
RECURSIVE from_file_each(_, _)
from_file_each_next(x, rest, reSort) ==
    IF x.err # "ok" THEN [batches |-> <<>>, err |-> x.err]
    ELSE [batches |-> <<x.b>> \o from_file_each(rest, reSort).batches,
          err |-> from_file_each(rest, reSort).err]

from_file_each(files, reSort) ==
    IF files = <<>> THEN [batches |-> <<>>, err |-> "ok"]
    ELSE from_file_each_next(from_file(Head(files), reSort), Tail(files), reSort)

\* BatcherThreading.from_files: with one thread reSort is not passed on
from_files(dir, threads, reSort) ==
    IF ~dir.isdir THEN [batches |-> <<>>, err |-> "AssertionError"]
    ELSE from_file_each(dir.files, ClampThreads(threads) # 1 /\ reSort)

\* load_batches(previous_batches, threads, re_sort)
load_batches(dir, threads, re_sort) ==
    IF ~dir.isdir \/ Len(dir.files) > 0
    THEN [batches |-> <<>>, err |-> "AssertionError"]
    ELSE from_files(dir, threads, re_sort)

\* largest number of files in the directory of previous batches
MaxFiles == 2

\* batch files as a previous run dumped them
BatchFiles ==
    {FileOf(JoinFasta(<<K_AC, K_CA>>)), FileOf(JoinFasta(<<K_CA, K_AC>>)),
     FileOf(JoinFasta(<<K_AC2>>)), FileOf(JoinFasta(<<K_AC, K_AC2, K_CA>>))}

PreviousBatches ==
    {NoDir} \cup {DirOf(files) : files \in UNION {[1..n -> BatchFiles] : n \in 0..MaxFiles}}

LoadCall(name, threads, re_sort) ==
    [name |-> name, threads |-> threads, re_sort |-> re_sort]

\* the path given as previous_batches (pipe) and the arguments of the call
InitLoad ==
    /\ pipe \in PreviousBatches
    /\ \E t \in 1..MaxThreads, re_sort \in BOOLEAN : op = LoadCall("start", t, re_sort)
    /\ out = <<>>
    /\ err = "ok"
    /\ batch = Batch_init(1)
    /\ added = <<>>
    /\ wmode = "none"
    /\ batcher = <<>>
    /\ vector = <<>>

LoadBatchesDone(r) ==
    /\ out' = r.batches
    /\ err' = r.err
    /\ op' = [op EXCEPT !.name = "load_batches"]
    /\ UNCHANGED <<batch, added, wmode, batcher, pipe, vector>>

LoadBatches ==
    /\ op.name = "start"
    /\ LoadBatchesDone(load_batches(pipe, op.threads, op.re_sort))

NextLoad == LoadBatches

SpecLoad == InitLoad /\ [][NextLoad]_vars

\* the batches found in the directory: one per file, bound to it, holding
\* the records of the file
FoundIn(dir, batches) ==
    /\ Len(batches) = Len(dir.files)
    /\ \A j \in DOMAIN batches :
          BagOf(record_gen(batches[j]).recs)
             = BagOf(record_gen_from_handle(dir.files[j].content).recs)

\* C36: load_batches returns the batches found in previous_batches when that
\* path is an existing directory holding at least one file, and raises
\* AssertionError when the directory does not exist or is empty.
C36_LoadBatches ==
    op.name = "load_batches" =>
        IF pipe.isdir /\ Len(pipe.files) > 0
        THEN err = "ok" /\ FoundIn(pipe, out)
        ELSE err = "AssertionError"

-----------------------------------------------------------------------------
(* SpecConstruct: a FastaBatcher constructed with size and threads, the
   FastaRecordBatcher derived from it, and the batches they create *)

ConstructCall(name, size, threads) == [name |-> name, size |-> size, threads |-> threads]

\* the arguments FastaBatcher is about to be constructed with
InitConstruct ==
    /\ \E size \in 1..MaxSize, threads \in 1..MaxThreads :
          op = ConstructCall("start", size, threads)
    /\ pipe = <<>>
    /\ batcher = <<>>
    /\ added = <<>>
    /\ err = "ok"
    /\ out = <<>>
    /\ batch = Batch_init(1)
    /\ wmode = "none"
    /\ vector = <<>>

\* fb = FastaBatcher(scan_mode, reverse, threads=op.threads, size=op.size) (pipe)
\* and FastaRecordBatcher.from_parent(fb) (batcher)
ConstructDone(fb) ==
    /\ pipe' = fb
    /\ batcher' = from_parent(fb)
    /\ op' = [op EXCEPT !.name = "FastaBatcher"]
    /\ UNCHANGED <<batch, added, wmode, err, out, vector>>

Construct(scan_mode, reverse) ==
    /\ op.name = "start"
    /\ ConstructDone(FastaBatcher_init(scan_mode, reverse, op.threads, op.size))

ParentAddDone(a, r) ==
    /\ pipe' = a.b
    /\ err' = a.err
    /\ added' = IF a.err = "ok" THEN Append(added, r) ELSE added
    /\ op' = [op EXCEPT !.name = "add_record"]
    /\ UNCHANGED <<batch, wmode, out, batcher, vector>>

\* fb.add_record(r): new batches are created as the last one fills
ParentAdd(r) ==
    /\ op.name # "start"
    /\ TotalSize(pipe.collection) < MaxFed
    /\ ParentAddDone(add_record(pipe, r), r)

SubBuildDone(x) ==
    /\ out' = IF x.err = "ok" THEN Append(out, x.b) ELSE out
    /\ err' = x.err
    /\ op' = [op EXCEPT !.name = "build_batch"]
    /\ UNCHANGED <<batch, added, wmode, pipe, batcher, vector>>

\* FastaRecordBatcher.build_batch(seq, "r", 2, batcher): the built batches
\* are kept in out
SubBuild(seq) ==
    /\ op.name # "start"
    /\ Len(out) < 1
    /\ SubBuildDone(build_batch(seq, <<"r">>, 2, batcher, 0))

NextConstruct ==
    \/ \E scan_mode \in MODE, reverse \in BOOLEAN : Construct(scan_mode, reverse)
    \/ \E r \in KMerPool : ParentAdd(r)
    \/ \E seq \in {<<"A", "C">>, <<"A", "C", "A">>} : SubBuild(seq)

SpecConstruct == InitConstruct /\ [][NextConstruct]_vars

\* every batch of the list has the given capacity
AllOfCapacity(c, size) == \A j \in DOMAIN c : c[j].size = size

\* C37: every Batch created by a FastaBatcher constructed with size = S and
\* threads = T, and by the FastaRecordBatcher derived from it, has capacity S,
\* and the thread count of both is T clamped to [1, cpu_count]: the capacity
\* does not depend on the threads setting.
C37_CapacityIsSize ==
    op.name # "start" =>
        /\ AllOfCapacity(pipe.collection, op.size)
        /\ AllOfCapacity(batcher.collection, op.size)
        /\ AllOfCapacity(out, op.size)
        /\ pipe.threads = ClampThreads(op.threads)
        /\ batcher.threads = ClampThreads(op.threads)

-----------------------------------------------------------------------------
(* FastaBatcher.do with several threads: the shards and their batches *)

\* C38: build_batch never fails with a full batch: the k-mers generated from
\* a shard, reverse complements included, number at most the batch size.
C38_ShardFits == pipe.err # "BatchFull"

-----------------------------------------------------------------------------
(* SpecShards: the loop of Sequence.batcher, one round per step *)

\* an index of a Python slice of s brought into 0..len(s)
SliceIndex(s, x) == IF x < 0 THEN MaxOf(0, Len(s) + x) ELSE Min(x, Len(s))

\* s[a:b]
PySlice(s, a, b) == SubSeq(s, SliceIndex(s, a) + 1, SliceIndex(s, b))

\* more shards than any sequence of the model has start positions: the
\* shards yielded are recorded up to here
MaxShards == MaxLen + 1

\* below this value of start every slice is empty and the loop condition
\* holds, whatever start is: lower values are followed as this one
StartFloor(seq, batchSize) == 0 - (Len(seq) + batchSize + 1)

\* the generator Sequence.batcher(seq, k, batchSize) before its first round
\* (pipe: the local start, the position in the code, the parity of the
\* number of rounds taken)
InitShards ==
    /\ op \in {SeqCall("batcher", s, k, 0, FALSE, n) :
                 s \in UNION {SeqsOfLen(l) : l \in 0..MaxLen}, k \in 1..MaxK,
                 n \in 1..MaxSize}
    /\ pipe = [start |-> 0, pc |-> "while", round |-> 0]
    /\ out = <<>>
    /\ err = "ok"
    /\ batch = Batch_init(1)
    /\ added = <<>>
    /\ wmode = "none"
    /\ batcher = <<>>
    /\ vector = <<>>

\* one round of the while loop: the shard is yielded and start moves on
BatcherRound ==
    /\ pipe.pc = "while"
    /\ pipe.start < Len(op.seq) - op.k + 1
    /\ out' = IF Len(out) < MaxShards
              THEN Append(out, [seq |-> PySlice(op.seq, pipe.start,
                                                Min(Len(op.seq), pipe.start + op.batchSize)),
                                i |-> pipe.start])
              ELSE out
    /\ pipe' = [pipe EXCEPT !.start = MaxOf(@ + op.batchSize - op.k + 1,
                                            StartFloor(op.seq, op.batchSize)),
                            !.round = 1 - @]
    /\ UNCHANGED <<batch, added, wmode, op, err, batcher, vector>>

\* the loop condition fails: the generator is exhausted
BatcherReturn ==
    /\ pipe.pc = "while"
    /\ ~(pipe.start < Len(op.seq) - op.k + 1)
    /\ pipe' = [pipe EXCEPT !.pc = "returned"]
    /\ UNCHANGED <<batch, added, wmode, op, err, out, batcher, vector>>

NextShards == BatcherRound \/ BatcherReturn

SpecShards == InitShards /\ [][NextShards]_vars

\* the consumer keeps asking for the next shard
SpecShardsFair == SpecShards /\ WF_vars(NextShards)

\* C39: Sequence.batcher terminates for every sequence, every k >= 1 and every
\* batchSize >= 1, batchSize < k included: a consumer that keeps taking shards
\* reaches the end of the generator.
C39_Terminates == <>(pipe.pc = "returned")

====
